---- MODULE Spec2Model ----
(***************************************************************************)
(* Model of the SLA support tree planner, SLASupportTree.cpp:              *)
(* SLASupportTree::generate (the staged state machine and its workers),    *)
(* SLASupportTree::Impl (the tree model and its builders), the copy        *)
(* operations of SLASupportTree and add_sla_supports.                      *)
(*                                                                         *)
(* Lengths are integers in units of 1/20 mm.  Element ids are 0-based as   *)
(* in the source; At(s, i) reads position i of a sequence.                 *)
(***************************************************************************)
EXTENDS Integers, Sequences, FiniteSets, TLC

VARIABLES
    scene,      \* the support points of the model, as support_points returns them
    pc,         \* Steps pc
    pc_prev,    \* Steps pc_prev
    cmd,        \* the command the last nextcmd call returned ("NONE" before the first)
    ncmd,       \* counts of the commands read so far
    cb,         \* the statuscb calls made by the last progress() call
    ran,        \* the workers program[pc]() run so far, in order
    data,       \* the locals of generate shared by the workers
    result,     \* SLASupportTree::Impl of the tree generate works on
    ret,        \* the value generate returned ("running" until it returns)
    copy,       \* an SLASupportTree copy constructed / assigned from the tree ("none" before)
    host,       \* the volumes add_sla_supports added to the host model ("none" before)
    at,         \* where the loop body stands: before progress() or before program[pc]()
    posted,     \* the command the host posted that nextcmd has not returned yet
    asked,      \* the nextcmd calls of the run: the blocking flag and the command returned
    first,      \* the commands and the tree of the run made before on the same object
    call        \* a call of cluster_centroid, pts_convex_hull or support_points on its own

vars == <<scene, pc, pc_prev, cmd, ncmd, cb, ran, data, result, ret, copy, host,
          at, posted, asked, first, call>>

----------------------------------------------------------------------------
(* Bounds of the model *)

MaxPts == 3         \* support points in a scene
MaxCmds == 7        \* commands read in a run
MaxPause == 2       \* PAUSE commands in a run
MaxSynch == 1       \* SYNCH commands in a run
MaxHostPts == 1     \* support points in a scene of the runs with a posting host
MaxIds == 4         \* ids handed to cluster_centroid or pts_convex_hull called on its own
MaxObjs == 2        \* objects of a model handed to support_points called on its own
MaxRingPts == 6     \* support points in a scene of pillars standing far apart

----------------------------------------------------------------------------
(* enum Steps *)

BEGIN == 0
FILTER == 1
PINHEADS == 2
CLASSIFY == 3
ROUTING_GROUND == 4
ROUTING_NONGROUND == 5
HEADLESS == 6
DONE == 7
HALT == 8
ABORT == 9
NUM_STEPS == 10

Steps == BEGIN .. ABORT

Cmds == {"START_RESUME", "PAUSE", "STOP", "SYNCH"}

At(s, i) == s[i + 1]

(* static const std::array<std::string, NUM_STEPS> stepstr: adjacent string   *)
(* literals without a comma between them are one literal, so the initializer  *)
(* has seven elements; the remaining three are empty strings.                 *)
stepstr ==
    << "Filtering",
       "Generate pinheadsClassification",
       "Routing to ground",
       "Routing supports to model surface",
       "Processing small holesDone",
       "Halt",
       "Abort",
       "", "", "" >>

\* stepstate with the entries of HEADLESS and DONE exchanged
stepstate_swapped == << 0, 10, 30, 50, 60, 70, 100, 80, 0, 0 >>

stepstate == << 0, 10, 30, 50, 60, 70, 80, 100, 0, 0 >>

----------------------------------------------------------------------------
(* Configuration and geometry *)

\* SupportConfig, the standard values in units of 1/20 mm; tilt is given by
\* its sine as the fraction sin_tilt_num / sin_tilt_den.
cfg ==
    [ head_front_radius_mm |-> 4,
      head_back_radius_mm  |-> 10,
      head_width_mm        |-> 20,
      pillar_radius_mm     |-> 6,
      base_radius_mm       |-> 20,
      base_height_mm       |-> 20,
      sin_tilt_num         |-> 7,
      sin_tilt_den         |-> 10 ]

D_SP == 2

\* the hit distance of a ray that hits nothing (std::isinf); hit distances are >= 0
Inf == -1

Vec3d(x, y, z) == [x |-> x, y |-> y, z |-> z]

Sq(a) == a * a

\* distance(a, b)^2 in 3D and in the XY plane
dist2_3d(a, b) == Sq(a.x - b.x) + Sq(a.y - b.y) + Sq(a.z - b.z)
dist2_2d(a, b) == Sq(a.x - b.x) + Sq(a.y - b.y)

\* the r in lo .. hi - 1 with r * r <= n < (r + 1) * (r + 1), by bisection
RECURSIVE ISqrtIn(_, _, _)
ISqrtIn(n, lo, hi) ==
    IF hi - lo <= 1 THEN lo
    ELSE LET mid == (lo + hi) \div 2
         IN  IF Sq(mid) <= n THEN ISqrtIn(n, mid, hi) ELSE ISqrtIn(n, lo, mid)

\* std::sqrt rounded down to the length unit (the root is searched below
\* 32768, whose square still is a machine integer of the model checker)
ISqrt(n) == ISqrtIn(n, 0, IF n < 32768 THEN n + 1 ELSE 32768)

distance2d(a, b) == ISqrt(dist2_2d(a, b))

\* d * sin(-cfg.tilt), rounded towards minus infinity
TiltDrop(d) == (-(d * cfg.sin_tilt_num)) \div cfg.sin_tilt_den

----------------------------------------------------------------------------
(* std::vector: the elements, the capacity and the identity of the buffer  *)
(* holding them.  A reference to an element names the buffer it points to. *)

EmptyVec == [el |-> << >>, cap |-> 0, gen |-> 0]

\* The capacity after a reallocation of a full buffer (the library doubles it).
NewCap(cap) == IF cap = 0 THEN 1 ELSE 2 * cap

\* std::vector::emplace_back: a full buffer is replaced by a new one, which
\* invalidates every reference into the old one.
emplace_back(v, e) ==
    IF Len(v.el) = v.cap
    THEN [el |-> Append(v.el, e), cap |-> NewCap(v.cap), gen |-> v.gen + 1]
    ELSE [v EXCEPT !.el = Append(@, e)]

\* the reference back() returns: the buffer and the position of the last element
BackRef(v) == [gen |-> v.gen, idx |-> Len(v.el) - 1]

\* a reference is valid while the buffer it points into is the vector's buffer
RefValid(v, ref) == ref.gen = v.gen /\ ref.idx < Len(v.el)

----------------------------------------------------------------------------
(* struct Head *)

\* Head::Head: direction and offset as given, nothing transformed, no tail
MkHead(r_big_mm, r_small_mm, length_mm, direction, offset) ==
    [ dir |-> direction, tr |-> offset,
      r_back_mm |-> r_big_mm, r_pin_mm |-> r_small_mm, width_mm |-> length_mm,
      ntransform |-> 0,     \* calls of transform() on this head
      ntail |-> 0,          \* calls of add_tail() on this head
      late |-> FALSE ]      \* a call came after a pillar was built from this head

fullwidth(h) == 2 * h.r_pin_mm + h.width_mm + 2 * h.r_back_mm

\* the length of a direction: directions are integer vectors, not normalised
Norm(d) == ISqrt(Sq(d.x) + Sq(d.y) + Sq(d.z))

\* tr + (2 * r_pin_mm + width_mm + r_back_mm) * dir, dir taken at length 1
junction_point(h) ==
    Vec3d(h.tr.x + ((2 * h.r_pin_mm + h.width_mm + h.r_back_mm) * h.dir.x) \div Norm(h.dir),
          h.tr.y + ((2 * h.r_pin_mm + h.width_mm + h.r_back_mm) * h.dir.y) \div Norm(h.dir),
          h.tr.z + ((2 * h.r_pin_mm + h.width_mm + h.r_back_mm) * h.dir.z) \div Norm(h.dir))

\* radius > 0 && radius < r_back_mm ? radius : r_back_mm * 0.65
request_pillar_radius(h, radius) ==
    IF radius > 0 /\ radius < h.r_back_mm THEN radius ELSE (h.r_back_mm * 65) \div 100

\* Head::transform; haspillar: a pillar built from this head exists already
transform(h, haspillar) ==
    [h EXCEPT !.ntransform = @ + 1, !.late = @ \/ haspillar]

\* Head::add_tail
add_tail(h, haspillar) ==
    [h EXCEPT !.ntail = @ + 1, !.late = @ \/ haspillar]

----------------------------------------------------------------------------
(* struct Pillar, Junction, Bridge *)

\* Pillar::Pillar(head, endp, radius); headref is the reference to the head
Pillar(h, headref, endp, radius) ==
    [ endpoint |-> endp,
      r |-> request_pillar_radius(h, radius),
      headref |-> headref,
      tailed |-> h.ntail > 0,       \* the tail ring the pillar mesh starts from exists
      base |-> FALSE ]

\* Pillar::add_base
add_base(p, height, radius) ==
    IF height <= 0 THEN p ELSE [p EXCEPT !.base = TRUE]

has_base(p) == p.base

Junction(tr, r_mm) == [pos |-> tr, r |-> r_mm]

\* What the build leaves open, bd in the operators below: whether a read
\* through a dangling reference yields the old bytes (stale), and the order in
\* which the spatial index yields the elements of a query (qorder).
Builds == [stale : BOOLEAN, qorder : {"asc", "desc"}]

\* what a read through a dangling reference yields when not the old bytes
Garbage == Vec3d(-1, -1, -1)

\* The position of the Junction a reference yields: that of the element while
\* the reference is valid; through a dangling reference the read is undefined,
\* and the build yields the old bytes or something else.
Deref(bd, v, ref) ==
    IF RefValid(v, ref) \/ bd.stale THEN At(v.el, ref.idx).pos ELSE Garbage

\* Bridge::Bridge(j1, j2, r_mm), with the junctions read through references;
\* j1ok, j2ok: the reference was valid when the bridge was built
Bridge(bd, v, r1, r2, r_mm) ==
    [ j1 |-> Deref(bd, v, r1), j2 |-> Deref(bd, v, r2), r |-> r_mm,
      j1ok |-> RefValid(v, r1), j2ok |-> RefValid(v, r2) ]

----------------------------------------------------------------------------
(* class SLASupportTree::Impl *)

MainId == 1
CopyId == 2

Hang == "hang"
Ub == "ub"

\* fault: what stopped a worker on this tree from returning, "none" if nothing;
\* woven: the pillar pairs the ring weaving went through on this tree, each
\* with what it found when it started on the pair
NewImpl(id) ==
    [ id |-> id, m_heads |-> EmptyVec, m_pillars |-> EmptyVec,
      m_junctions |-> EmptyVec, m_bridges |-> EmptyVec, fault |-> "none",
      woven |-> << >> ]

IsTree(r) == r.fault = "none"

Fault(r, f) == [r EXCEPT !.fault = f]

add_head(r, h) == [r EXCEPT !.m_heads = emplace_back(@, h)]

add_pillar(r, p) == [r EXCEPT !.m_pillars = emplace_back(@, p)]

add_junction(r, j) == [r EXCEPT !.m_junctions = emplace_back(@, j)]

add_bridge(r, b) == [r EXCEPT !.m_bridges = emplace_back(@, b)]

\* the reference result.head(idx) returns
HeadRef(r, idx) == [impl |-> r.id, gen |-> r.m_heads.gen, idx |-> idx]

\* a pillar of r built from head idx exists
HasPillar(r, idx) ==
    \E k \in 1 .. Len(r.m_pillars.el) : r.m_pillars.el[k].headref.idx = idx

\* head.transform() / head.add_tail() on the element result.head(idx)
head_transform(r, idx) ==
    [r EXCEPT !.m_heads.el[idx + 1] = transform(@, HasPillar(r, idx))]

head_add_tail(r, idx) ==
    [r EXCEPT !.m_heads.el[idx + 1] = add_tail(@, HasPillar(r, idx))]

----------------------------------------------------------------------------
(* Clustering, centroid election and convex hull *)

SetMin(S) == CHOOSE m \in S : \A k \in S : m <= k

\* the elements of a sequence
Range(q) == {q[k] : k \in 1 .. Len(q)}

\* The functors handed to cluster, cluster_centroid and pts_convex_hull are
\* functions here: pred and df over pairs of points, pointfn and pfn over ids.

\* a member of the cluster cl is adjacent to the point c
AdjacentTo(points, cl, c, pred) ==
    \E k \in 1 .. Len(cl) : pred[At(points, cl[k]), At(points, c)]

RECURSIVE GrowCluster(_, _, _, _, _)
GrowCluster(points, cl, free, pred, max_points) ==
    LET cand == {c \in free : AdjacentTo(points, cl, c, pred)}
    IN  IF cand = {} \/ (max_points > 0 /\ Len(cl) >= max_points)
        THEN cl
        ELSE GrowCluster(points, Append(cl, SetMin(cand)), free \ {SetMin(cand)},
                         pred, max_points)

RECURSIVE ClusterFrom(_, _, _, _, _)
ClusterFrom(points, free, acc, pred, max_points) ==
    IF free = {} THEN acc
    ELSE LET cl == GrowCluster(points, << SetMin(free) >>, free \ {SetMin(free)},
                               pred, max_points)
         IN  ClusterFrom(points, free \ {cl[k] : k \in 1 .. Len(cl)},
                         Append(acc, cl), pred, max_points)

\* cluster(points, pred, max_points): groups of ids of points, each group a
\* chain under pred of at most max_points members, its first member in front
cluster(points, pred, max_points) ==
    ClusterFrom(points, 0 .. Len(points) - 1, << >>, pred, max_points)

\* the sum over the other members of the cluster of their distance to member i
SumDist(clust, i, pointfn, df) ==
    LET others == (0 .. Len(clust) - 1) \ {i}
        RECURSIVE Sum(_)
        Sum(S) == IF S = {} THEN 0
                  ELSE LET j == SetMin(S)
                       IN  df[pointfn[At(clust, i)], pointfn[At(clust, j)]] + Sum(S \ {j})
    IN  Sum(others)

RECURSIVE SetToSeq(_)
SetToSeq(S) == IF S = {} THEN << >> ELSE << SetMin(S) >> \o SetToSeq(S \ {SetMin(S)})

SetMax(S) == CHOOSE m \in S : \A k \in S : k <= m

\* sel with the elements from position i on in reverse order
ReverseFrom(sel, i) ==
    [k \in 1 .. Len(sel) |-> IF k < i THEN sel[k] ELSE sel[Len(sel) + i - k]]

\* the positions i of a bitmask with sel[i] < sel[i + 1]
Ascents(sel) == {i \in 1 .. Len(sel) - 1 : ~sel[i] /\ sel[i + 1]}

\* the step of std::next_permutation at the last ascent i: sel[i] is swapped
\* with the last element greater than it, the rest is reversed
PermuteAt(sel, i) ==
    ReverseFrom([sel EXCEPT ![i] = TRUE,
                            ![SetMax({j \in i + 1 .. Len(sel) : sel[j]})] = FALSE],
                i + 1)

\* std::next_permutation on a bitmask: the next mask in lexicographic order
\* and true, or the first mask and false after the last one
next_permutation(sel) ==
    IF Ascents(sel) = {} THEN [sel |-> ReverseFrom(sel, 1), more |-> FALSE]
    ELSE [sel |-> PermuteAt(sel, SetMax(Ascents(sel))), more |-> TRUE]

\* std::min_element taking the last of several least elements
min_element_last(avgs) ==
    SetMax({i \in 0 .. Len(avgs) - 1 : \A j \in 0 .. Len(avgs) - 1 : At(avgs, i) <= At(avgs, j)})

\* std::min_element(avgs.begin(), avgs.end()) - avgs.begin(): the first of
\* the least elements
min_element(avgs) ==
    SetMin({i \in 0 .. Len(avgs) - 1 : \A j \in 0 .. Len(avgs) - 1 : At(avgs, i) <= At(avgs, j)})

\* idx: the two positions selected by the bitmask, in ascending order
SelIdx(sel) == SetToSeq({i \in 0 .. Len(sel) - 1 : At(sel, i)})

\* for(auto i : idx) avgs[i] += d
AddDist(avgs, idx, d) ==
    [k \in 1 .. Len(avgs) |-> IF k - 1 = idx[1] \/ k - 1 = idx[2] THEN avgs[k] + d ELSE avgs[k]]

\* the do-while of cluster_centroid from the bitmask sel on; pairs lists the
\* idx of every pass.  (The division of avgs by clust.size() is left out: it
\* does not change which element is the least.)
RECURSIVE CentroidLoop(_, _, _, _, _, _)
CentroidLoop(clust, pointfn, df, sel, avgs, pairs) ==
    IF next_permutation(sel).more
    THEN CentroidLoop(clust, pointfn, df, next_permutation(sel).sel,
                      AddDist(avgs, SelIdx(sel),
                              df[pointfn[At(clust, SelIdx(sel)[1])],
                                 pointfn[At(clust, SelIdx(sel)[2])]]),
                      Append(pairs, SelIdx(sel)))
    ELSE [avgs |-> AddDist(avgs, SelIdx(sel),
                           df[pointfn[At(clust, SelIdx(sel)[1])],
                              pointfn[At(clust, SelIdx(sel)[2])]]),
          pairs |-> Append(pairs, SelIdx(sel))]

\* cluster_centroid past its switch: sel with its two last bits set, avgs 0
CentroidSums(clust, pointfn, df) ==
    CentroidLoop(clust, pointfn, df,
                 [k \in 1 .. Len(clust) |-> k >= Len(clust) - 1],
                 [k \in 1 .. Len(clust) |-> 0], << >>)

cluster_centroid(clust, pointfn, df) ==
    IF Len(clust) = 0 THEN -1
    ELSE IF Len(clust) <= 2 THEN 0
    ELSE min_element(CentroidSums(clust, pointfn, df).avgs)

\* orientation(p, q, r): 0 collinear, 1 clockwise, 2 counterclockwise
orientation(p, q, r) ==
    LET val == (q.y - p.y) * (r.x - q.x) - (q.x - p.x) * (r.y - q.y)
    IN  IF val = 0 THEN 0 ELSE IF val > 0 THEN 1 ELSE 2

\* the leftmost point, the lowest of several: the scan of pts_convex_hull
RECURSIVE Leftmost(_, _, _)
Leftmost(points, i, l) ==
    IF i >= Len(points) THEN l
    ELSE IF At(points, i).x = At(points, l).x
         THEN Leftmost(points, i + 1, IF At(points, i).y < At(points, l).y THEN i ELSE l)
         ELSE Leftmost(points, i + 1, IF At(points, i).x < At(points, l).x THEN i ELSE l)

\* the inner scan: the point most counterclockwise of p
RECURSIVE MostCcw(_, _, _, _)
MostCcw(points, p, i, q) ==
    IF i >= Len(points) THEN q
    ELSE MostCcw(points, p, i + 1,
                 IF orientation(At(points, p), At(points, i), At(points, q)) = 2
                 THEN i ELSE q)

\* the do-while of pts_convex_hull; a walk that comes back to a point other
\* than l repeats from there and never ends
RECURSIVE HullWalk(_, _, _, _)
HullWalk(points, l, p, hull) ==
    LET n == Len(points)
        q == MostCcw(points, p, 0, (p + 1) % n)
    IN  IF \E k \in 1 .. Len(hull) : hull[k] = p THEN [hull |-> hull, ends |-> FALSE]
        ELSE IF q = l THEN [hull |-> Append(hull, p), ends |-> TRUE]
        ELSE HullWalk(points, l, q, Append(hull, p))

\* pts_convex_hull(inpts, pfn) with the mark of whether its do-while ends;
\* hull.push_back(p) stores the position p in inpts, not the id inpts[p]
pts_convex_hull(inpts, pfn) ==
    IF Len(inpts) < 3 THEN [hull |-> inpts, ends |-> TRUE]
    ELSE LET points == [k \in 1 .. Len(inpts) |-> pfn[inpts[k]]]
         IN  HullWalk(points, Leftmost(points, 1, 0), Leftmost(points, 1, 0), << >>)

----------------------------------------------------------------------------
(* The mesh, as the answers of normals and ray_mesh_intersect, and the      *)
(* support points placed on it.  Each entry is a support point p with the   *)
(* face normal n at p, the hit distance tpin of the ray along the corrected *)
(* normal, and the hit distance tdown of the ray straight down from the     *)
(* junction point of a head at p.  onface: p lies on a face of the mesh;    *)
(* for a point off every face n is whatever normals returns for it.         *)

Up == Vec3d(0, 0, 1)
Down == Vec3d(0, 0, -1)
\* a face that looks down and sideways, 37 degrees off the vertical
Tilted == Vec3d(3, 0, -4)

\* polar = std::max(polar, 3*PI / 4) and the reassembly of the normal: a
\* normal more than 45 degrees off the downward vertical is put at 45 degrees
Saturate(n) ==
    IF -n.z >= ISqrt(Sq(n.x) + Sq(n.y)) THEN n
    ELSE IF n.x = 0 /\ n.y = 0 THEN Vec3d(1, 0, -1)      \* azimuth = atan2(0, 0) = 0
    ELSE Vec3d(n.x, n.y, -ISqrt(Sq(n.x) + Sq(n.y)))

\* the test of the polar angle left out: every normal passes
SaneTilt_any(n) == TRUE

\* polar >= PI / 2, for polar = acos(n.z): the face does not look up
SaneTilt(n) == n.z <= 0

Pool ==
    << [p |-> Vec3d(0, 0, 200),   n |-> Down, tpin |-> 88,  tdown |-> 50,  onface |-> TRUE],
       [p |-> Vec3d(0, 0, 100),   n |-> Down, tpin |-> Inf, tdown |-> Inf, onface |-> TRUE],
       [p |-> Vec3d(60, 0, 200),  n |-> Down, tpin |-> Inf, tdown |-> Inf, onface |-> TRUE],
       [p |-> Vec3d(300, 0, 200), n |-> Down, tpin |-> Inf, tdown |-> Inf, onface |-> TRUE],
       [p |-> Vec3d(0, 100, 200), n |-> Up,   tpin |-> Inf, tdown |-> Inf, onface |-> TRUE],
       [p |-> Vec3d(100, 100, 200), n |-> Tilted, tpin |-> Inf, tdown |-> 30, onface |-> TRUE],
       [p |-> Vec3d(200, 100, 200), n |-> Down, tpin |-> Inf, tdown |-> Inf, onface |-> FALSE],
       [p |-> Vec3d(240, 100, 200), n |-> Up,   tpin |-> Inf, tdown |-> Inf, onface |-> FALSE],
       [p |-> Vec3d(0, 60, 200),  n |-> Down, tpin |-> Inf, tdown |-> Inf, onface |-> TRUE],
       [p |-> Vec3d(301, 0, 200), n |-> Down, tpin |-> Inf, tdown |-> Inf, onface |-> TRUE],
       [p |-> Vec3d(300, 1, 200), n |-> Down, tpin |-> Inf, tdown |-> Inf, onface |-> TRUE],
       [p |-> Vec3d(305, 0, 200), n |-> Down, tpin |-> Inf, tdown |-> Inf, onface |-> TRUE],
       [p |-> Vec3d(0, 400, 200),   n |-> Down, tpin |-> Inf, tdown |-> Inf, onface |-> TRUE],
       [p |-> Vec3d(600, 400, 200), n |-> Down, tpin |-> Inf, tdown |-> Inf, onface |-> TRUE],
       [p |-> Vec3d(0, 1000, 200),  n |-> Down, tpin |-> Inf, tdown |-> Inf, onface |-> TRUE],
       [p |-> Vec3d(100, 500, 200), n |-> Down, tpin |-> Inf, tdown |-> Inf, onface |-> TRUE],
       [p |-> Vec3d(250, 500, 200), n |-> Down, tpin |-> Inf, tdown |-> Inf, onface |-> TRUE],
       [p |-> Vec3d(100, 650, 200), n |-> Down, tpin |-> Inf, tdown |-> Inf, onface |-> TRUE],
       [p |-> Vec3d(250, 650, 200), n |-> Down, tpin |-> Inf, tdown |-> Inf, onface |-> TRUE],
       [p |-> Vec3d(400, 100, 200), n |-> Down, tpin |-> 40, tdown |-> Inf, onface |-> TRUE],
       [p |-> Vec3d(500, 100, 200), n |-> Tilted, tpin |-> 76, tdown |-> Inf, onface |-> TRUE],
       [p |-> Vec3d(600, 100, 200), n |-> Up,   tpin |-> 40, tdown |-> Inf, onface |-> TRUE],
       [p |-> Vec3d(120, 0, 100), n |-> Down, tpin |-> Inf, tdown |-> Inf, onface |-> TRUE] >>

PoolSet == {Pool[k] : k \in 1 .. Len(Pool)}

\* the entry of the mesh for the support point s
MeshAt(s) == CHOOSE e \in PoolSet : e.p = s

\* sla::normals for one point
normals(pt) == MeshAt(pt).n

\* the obstacle between the pillars: rays starting below this height hit it at once
ObstacleZ == 60

\* the ray cast before a bridge is made: the hit distance
ray_bridge(sj) == IF sj.z < ObstacleZ THEN 0 ELSE Inf

\* chkd >= pillar_dist, for a hit distance that may be infinite
GeqDist(t, d) == t = Inf \/ t >= d

----------------------------------------------------------------------------
(* The workers of generate.  Each takes and returns w = [data, result]:    *)
(* the shared locals and the tree.                                          *)

EmptyData ==
    [ filtered_points |-> << >>, filtered_normals |-> << >>,
      head_positions |-> << >>, headless_positions |-> << >>,
      head_heights |-> << >>, ground_heads |-> << >>, noground_heads |-> << >>,
      ground_connectors |-> << >> ]

\* the loop of filterfn with the clearance test t >= 2*w in place of t > 2*w
RECURSIVE FilterLoop_geq(_, _, _)
FilterLoop_geq(filt_pts, i, acc) ==
    IF i >= Len(filt_pts) THEN acc
    ELSE LET n == normals(At(filt_pts, i))
             hp == At(filt_pts, i)
             w == cfg.head_width_mm + cfg.head_back_radius_mm + 2 * cfg.head_front_radius_mm
             t == MeshAt(hp).tpin
         IN  IF SaneTilt(n)
             THEN IF t = Inf \/ t >= 2 * w
                  THEN FilterLoop_geq(filt_pts, i + 1,
                           [acc EXCEPT !.head_pos = Append(@, hp),
                                       !.filt_norm = Append(@, Saturate(n))])
                  ELSE FilterLoop_geq(filt_pts, i + 1,
                           [acc EXCEPT !.headless_pos = Append(@, hp)])
             ELSE FilterLoop_geq(filt_pts, i + 1, acc)

\* the loop of filterfn over the deduplicated points; acc holds head_pos,
\* filt_norm and headless_pos as filled so far
RECURSIVE FilterLoop(_, _, _)
FilterLoop(filt_pts, i, acc) ==
    IF i >= Len(filt_pts) THEN acc
    ELSE LET n == normals(At(filt_pts, i))
             hp == At(filt_pts, i)
             w == cfg.head_width_mm + cfg.head_back_radius_mm + 2 * cfg.head_front_radius_mm
             t == MeshAt(hp).tpin
         IN  IF SaneTilt(n)
             THEN IF t = Inf \/ t > 2 * w
                  THEN FilterLoop(filt_pts, i + 1,
                           [acc EXCEPT !.head_pos = Append(@, hp),
                                       !.filt_norm = Append(@, Saturate(n))])
                  ELSE FilterLoop(filt_pts, i + 1,
                           [acc EXCEPT !.headless_pos = Append(@, hp)])
             ELSE FilterLoop(filt_pts, i + 1, acc)

TooClose(a, b) == dist2_3d(a, b) < Sq(D_SP)

\* filt_pts: the front point of every cluster of aliases
Fronts(aliases) == [k \in 1 .. Len(aliases) |-> At(scene, aliases[k][1])]

\* the outputs of filterfn
FilterStore(w, filt_pts, out) ==
    [w EXCEPT !.data.filtered_points = filt_pts,
              !.data.filtered_normals = out.filt_norm,
              !.data.head_positions = out.head_pos,
              !.data.headless_positions = out.headless_pos]

\* filterfn from filt_pts on
FilterPoints(w, filt_pts) ==
    FilterStore(w, filt_pts,
                FilterLoop(filt_pts, 0,
                           [head_pos |-> << >>, filt_norm |-> << >>, headless_pos |-> << >>]))

filterfn(w) ==
    FilterPoints(w, Fronts(cluster(scene,
                                   [a \in Range(scene), b \in Range(scene) |-> TooClose(a, b)],
                                   2)))

RECURSIVE PinheadLoop(_, _, _, _)
PinheadLoop(head_pos, nmls, i, r) ==
    IF i >= Len(head_pos) THEN r
    ELSE PinheadLoop(head_pos, nmls, i + 1,
             add_head(r, MkHead(cfg.head_back_radius_mm, cfg.head_front_radius_mm,
                                cfg.head_width_mm, At(nmls, i), At(head_pos, i))))

pinheadfn(w) ==
    [w EXCEPT !.result = PinheadLoop(w.data.head_positions, w.data.filtered_normals,
                                     0, w.result)]

\* the first loop of classifyfn: the down ray of every head
RECURSIVE ClassifyRays(_, _, _)
ClassifyRays(w, n, i) ==
    IF i >= n THEN w
    ELSE LET head == At(w.result.m_heads.el, i)
             t == MeshAt(head.tr).tdown
             w1 == [w EXCEPT !.data.head_heights = Append(@, t)]
         IN  ClassifyRays(IF t = Inf
                          THEN [w1 EXCEPT !.data.ground_heads = Append(@, i)]
                          ELSE [w1 EXCEPT !.data.noground_heads = Append(@, i)],
                          n, i + 1)

\* ClassifyPillars with the pillar ending r_pin_mm above the hit point
RECURSIVE ClassifyPillars_rpin(_, _)
ClassifyPillars_rpin(w, k) ==
    IF k >= Len(w.data.noground_heads) THEN w
    ELSE LET idx == At(w.data.noground_heads, k)
             r1 == head_add_tail(head_transform(w.result, idx), idx)
             head == At(r1.m_heads.el, idx)
             gh == At(w.data.head_heights, idx)
             headend == junction_point(head)
             cs == Pillar(head, HeadRef(r1, idx),
                          Vec3d(headend.x, headend.y, headend.z - gh + head.r_pin_mm),
                          cfg.pillar_radius_mm)
         IN  ClassifyPillars_rpin([w EXCEPT !.result = add_pillar(r1, [cs EXCEPT !.base = TRUE])],
                                  k + 1)

\* the last loop of classifyfn: a pillar onto the mesh for every head of nogndidx
RECURSIVE ClassifyPillars(_, _)
ClassifyPillars(w, k) ==
    IF k >= Len(w.data.noground_heads) THEN w
    ELSE LET idx == At(w.data.noground_heads, k)
             r1 == head_add_tail(head_transform(w.result, idx), idx)
             head == At(r1.m_heads.el, idx)
             gh == At(w.data.head_heights, idx)
             headend == junction_point(head)
             hl == fullwidth(head) - head.r_back_mm
             cs == Pillar(head, HeadRef(r1, idx),
                          Vec3d(headend.x, headend.y, headend.z - gh + hl),
                          cfg.pillar_radius_mm)
         IN  ClassifyPillars([w EXCEPT !.result = add_pillar(r1, [cs EXCEPT !.base = TRUE])],
                             k + 1)

CloseInXY(a, b) == dist2_2d(a, b) < Sq(4 * cfg.base_radius_mm)

\* gnd: the positions of the heads of gndidx
Gnd(d) == [k \in 1 .. Len(d.ground_heads) |-> At(d.head_positions, d.ground_heads[k])]

\* classifyfn after its first loop: ground_clusters, then the pillars of nogndidx
ClassifyGround(w1) ==
    ClassifyPillars(
        [w1 EXCEPT !.data.ground_connectors =
            cluster(Gnd(w1.data),
                    [a \in Range(Gnd(w1.data)), b \in Range(Gnd(w1.data)) |-> CloseInXY(a, b)],
                    4)],
        0)

classifyfn(w) == ClassifyGround(ClassifyRays(w, Len(w.data.head_positions), 0))

----------------------------------------------------------------------------
(* routing_ground_fn *)

\* gnd_head_pt(idx)
gnd_head_pt(d, idx) == At(d.head_positions, At(d.ground_heads, idx))

dist_xy(p1, p2) == distance2d(p1, p2)

\* no ray was cast / the ray cast gave the hit distance chkd, for a bridge
\* between pillars at distance dist
NoCast == [made |-> FALSE, chkd |-> 0, dist |-> 0]
Cast(chkd, dist) == [made |-> TRUE, chkd |-> chkd, dist |-> dist]

\* add_bridge(j1, j2, r) with j2 the reference the last add_junction returned
\* and j1 a reference returned earlier; cast: the ray cast made for this
\* bridge before the call, kept with the bridge
JoinBridge(bd, r, j1, r_mm, cast) ==
    add_bridge(r, Bridge(bd, r.m_junctions, j1, BackRef(r.m_junctions), r_mm)
                  @@ [cast |-> cast])

\* jp: the junction point of the side head, moved down by jstep
SideJp(sidehead) ==
    Vec3d(junction_point(sidehead).x, junction_point(sidehead).y,
          junction_point(sidehead).z - fullwidth(sidehead))

\* jn: the point on the main pillar the tilted bridge from jp hits
SideJn(jp, jh) == Vec3d(jh.x, jh.y, jp.z + TiltDrop(distance2d(jp, jh)))

\* jn(Z) > 0, after jjp = add_junction(jp): the pillar of the side head, the
\* junction jn and the bridge from jjp to it
SideBridge(bd, r2, side, jp, jn) ==
    JoinBridge(bd,
               add_junction(add_pillar(r2, Pillar(At(r2.m_heads.el, side), HeadRef(r2, side),
                                                  jp, cfg.pillar_radius_mm)),
                            Junction(jn, cfg.head_back_radius_mm)),
               BackRef(r2.m_junctions),
               request_pillar_radius(At(r2.m_heads.el, side), cfg.pillar_radius_mm),
               NoCast)

\* SideJoin taking the else branch whatever jn(Z) is
SideJoin_dedicated(bd, r1, side, jp, jh) ==
    add_pillar(r1, add_base(Pillar(At(r1.m_heads.el, side), HeadRef(r1, side),
                                   Vec3d(jp.x, jp.y, 0), cfg.pillar_radius_mm),
                            cfg.base_height_mm, cfg.base_radius_mm))

\* SideJoin without the else branch: a side head with no room for the bridge
\* gets nothing
SideJoin_bridged(bd, r1, side, jp, jh) ==
    IF SideJn(jp, jh).z > 0
    THEN SideBridge(bd, add_junction(r1, Junction(jp, cfg.head_back_radius_mm)),
                    side, jp, SideJn(jp, jh))
    ELSE r1

\* the if (jn(Z) > 0) of the side head, else a pillar of its own to the ground
SideJoin(bd, r1, side, jp, jh) ==
    IF SideJn(jp, jh).z > 0
    THEN SideBridge(bd, add_junction(r1, Junction(jp, cfg.head_back_radius_mm)),
                    side, jp, SideJn(jp, jh))
    ELSE add_pillar(r1, add_base(Pillar(At(r1.m_heads.el, side), HeadRef(r1, side),
                                        Vec3d(jp.x, jp.y, 0), cfg.pillar_radius_mm),
                                 cfg.base_height_mm, cfg.base_radius_mm))

\* the side head after transform() and add_tail(): jp and jh
SideTail(bd, r1, side, main) ==
    SideJoin(bd, r1, side, SideJp(At(r1.m_heads.el, side)),
             junction_point(At(r1.m_heads.el, main)))

\* one side head c of a cluster whose main head is head number main
SideHead(bd, r, d, main, c) ==
    SideTail(bd, head_add_tail(head_transform(r, At(d.ground_heads, c)), At(d.ground_heads, c)),
             At(d.ground_heads, c), main)

RECURSIVE SideHeads(_, _, _, _, _, _)
SideHeads(bd, r, d, main, cl, k) ==
    IF k >= Len(cl) THEN r
    ELSE SideHeads(bd, SideHead(bd, r, d, main, At(cl, k)), d, main, cl, k + 1)

\* cl without the element at position i: cl.erase(cl.begin() + cidx)
Erase(cl, i) == [k \in 1 .. Len(cl) - 1 |-> IF k <= i THEN cl[k] ELSE cl[k + 1]]

\* cluster_centroid(cl, gnd_head_pt, distance in XY)
Centroid(d, cl) ==
    cluster_centroid(cl, [i \in Range(cl) |-> gnd_head_pt(d, i)],
                     [a \in {gnd_head_pt(d, i) : i \in Range(cl)},
                      b \in {gnd_head_pt(d, i) : i \in Range(cl)} |-> dist_xy(a, b)])

\* the pillar of the main head, from its junction point to the ground, with
\* a base; then the side heads
MainPillar(bd, r1, d, index_to_heads, rest) ==
    SideHeads(bd,
              add_pillar(r1, add_base(Pillar(At(r1.m_heads.el, index_to_heads),
                                             HeadRef(r1, index_to_heads),
                                             Vec3d(junction_point(At(r1.m_heads.el, index_to_heads)).x,
                                                   junction_point(At(r1.m_heads.el, index_to_heads)).y,
                                                   0),
                                             cfg.pillar_radius_mm),
                                      cfg.base_height_mm, cfg.base_radius_mm)),
              d, index_to_heads, rest, 0)

\* the body of the loop over gnd_clusters for the cluster cl with centroid cidx
ClusterStep(bd, r, d, cl, cidx) ==
    MainPillar(bd,
               head_transform(head_add_tail(r, At(d.ground_heads, At(cl, cidx))),
                              At(d.ground_heads, At(cl, cidx))),
               d, At(d.ground_heads, At(cl, cidx)), Erase(cl, cidx))

\* the loop over gnd_clusters; cents collects cl[cidx]
RECURSIVE ClusterSteps(_, _, _, _, _)
ClusterSteps(bd, r, d, k, cents) ==
    IF k >= Len(d.ground_connectors) THEN [result |-> r, cl_centroids |-> cents]
    ELSE ClusterSteps(bd,
                      ClusterStep(bd, r, d, At(d.ground_connectors, k),
                                  Centroid(d, At(d.ground_connectors, k))),
                      d, k + 1,
                      Append(cents, At(At(d.ground_connectors, k),
                                       Centroid(d, At(d.ground_connectors, k)))))

\* the while loop weaving bridges between pillar and nextpillar
RECURSIVE WeaveLoop(_, _, _, _, _, _, _, _)
WeaveLoop(bd, r, pillar, nextpillar, sj, ej, pillar_dist, nstartz) ==
    IF ~(nextpillar.endpoint.z < ej.z /\ pillar.endpoint.z < sj.z) THEN r
    ELSE IF TiltDrop(pillar_dist) >= 0 THEN Fault(r, Hang)    \* neither z ever changes
    ELSE WeaveLoop(bd,
                   IF GeqDist(ray_bridge(sj), pillar_dist) /\ nstartz > ej.z
                   THEN JoinBridge(bd,
                            add_junction(add_junction(r, Junction(sj, cfg.head_back_radius_mm)),
                                         Junction(ej, cfg.head_back_radius_mm)),
                            BackRef(add_junction(r, Junction(sj, cfg.head_back_radius_mm)).m_junctions),
                            pillar.r,
                            Cast(ray_bridge(sj), pillar_dist))
                   ELSE r,
                   pillar, nextpillar, ej,
                   Vec3d(sj.x, sj.y, ej.z + TiltDrop(pillar_dist)),
                   pillar_dist, nstartz)


Reverse(q) == [k \in 1 .. Len(q) |-> q[Len(q) + 1 - k]]

\* the junction_index filled before the rings: {p(X), p(Y), 0} with the
\* position of the junction in result.junctions()
FillIndex(r) ==
    [k \in 1 .. Len(r.m_junctions.el) |->
        [first |-> Vec3d(r.m_junctions.el[k].pos.x, r.m_junctions.el[k].pos.y, 0),
         second |-> k - 1]]

\* SpatIndex::query for the elements closer than dd to pp; the index yields
\* them in an order of its own
Query(bd, junction_index, pp, dd) ==
    LET hits == {k \in 1 .. Len(junction_index) :
                    dist2_3d(pp, junction_index[k].first) < Sq(dd)}
        asc == [k \in 1 .. Cardinality(hits) |-> junction_index[SetToSeq(hits)[k]]]
    IN  IF bd.qorder = "asc" THEN asc ELSE Reverse(asc)

\* std::max_element by se1.first(2) < se2.first(2): the first of the largest
MaxElementZ(juncs) ==
    juncs[SetMin({k \in 1 .. Len(juncs) :
                     \A j \in 1 .. Len(juncs) : ~(juncs[k].first.z < juncs[j].first.z)})]

\* a pillar's headref yields its head: the reference is valid, or it dangles
\* and the build yields the old bytes
HeadReadable(bd, r, headref) ==
    (headref.impl = r.id /\ RefValid(r.m_heads, headref)) \/ bd.stale

HeadOf(r, headref) == At(r.m_heads.el, headref.idx)

\* from sj on: ej on the next pillar, pillar_dist, nstartz and the while loop
WeaveStart(bd, r, pillar, nextpillar, sj) ==
    WeaveLoop(bd, r, pillar, nextpillar, sj,
              Vec3d(nextpillar.endpoint.x, nextpillar.endpoint.y,
                    sj.z + TiltDrop(distance2d(sj, nextpillar.endpoint))),
              distance2d(sj, nextpillar.endpoint),
              junction_point(HeadOf(r, nextpillar.headref)).z)

\* sj: the head's junction point if the pillar has no junction yet, else the
\* junction std::max_element picks
StartPoint(r, pillar, juncs) ==
    IF juncs = << >> THEN junction_point(HeadOf(r, pillar.headref))
    ELSE At(r.m_junctions.el, MaxElementZ(juncs).second).pos

\* from juncs on; both headrefs are read through
WeaveFrom(bd, r, pillar, nextpillar, juncs) ==
    IF (juncs = << >> /\ ~HeadReadable(bd, r, pillar.headref))
       \/ ~HeadReadable(bd, r, nextpillar.headref)
    THEN Fault(r, Ub)
    ELSE WeaveStart(bd, r, pillar, nextpillar, StartPoint(r, pillar, juncs))

\* the body of the loop over the ring for the pair (it, next):
\* result.pillars()[*it] and result.pillars()[*next]
WeavePair(bd, r, junction_index, it, next) ==
    IF it >= Len(r.m_pillars.el) \/ next >= Len(r.m_pillars.el) THEN Fault(r, Ub)
    ELSE \* juncs = junction_index.query(...)
         LET juncs == Query(bd, junction_index,
                            Vec3d(At(r.m_pillars.el, it).endpoint.x,
                                  At(r.m_pillars.el, it).endpoint.y, 0),
                            2 * At(r.m_pillars.el, it).r)
             out == WeaveFrom(bd,
                       [r EXCEPT !.woven =
                           Append(@, [it |-> it, next |-> next,
                                      indexed |-> Len(junction_index),
                                      njunc |-> Len(r.m_junctions.el),
                                      sj |-> StartPoint(r, At(r.m_pillars.el, it), juncs),
                                      ended |-> TRUE])],
                       At(r.m_pillars.el, it), At(r.m_pillars.el, next), juncs)
         IN  \* ended: the while loop of this pair came to its end
             [out EXCEPT !.woven[Len(out.woven)].ended = (out.fault # Hang)]

\* the for loop over the consecutive pairs of the ring
RECURSIVE RingLoop(_, _, _, _, _)
RingLoop(bd, r, junction_index, ring, k) ==
    IF ~IsTree(r) \/ k + 1 >= Len(ring) THEN r
    ELSE RingLoop(bd, WeavePair(bd, r, junction_index, At(ring, k), At(ring, k + 1)),
                  junction_index, ring, k + 1)

\* pts_convex_hull(rem, gnd_head_pt projected to XY), with the mark of
\* whether its do-while ends
RingOf(d, sorted) == pts_convex_hull(sorted, [i \in Range(sorted) |-> gnd_head_pt(d, i)])

\* std::set_difference(rem, sring)
SetDifference(sorted, ring) ==
    SelectSeq(sorted, LAMBDA e : \A k \in 1 .. Len(ring) : ring[k] # e)

RECURSIVE RemLoop(_, _, _, _, _)

\* rem.swap(tmp) and the next turn of while(!rem.empty()); a rem that did
\* not get shorter never does
RemNext(bd, r1, d, junction_index, sorted, tmp) ==
    IF ~IsTree(r1) THEN r1
    ELSE IF Len(tmp) = Len(sorted) THEN Fault(r1, Hang)
    ELSE RemLoop(bd, r1, d, junction_index, tmp)

\* one turn of while(!rem.empty()) for the sorted rem and its hull
RemStep(bd, r, d, junction_index, sorted, hull) ==
    RemNext(bd,
            IF ~hull.ends THEN Fault(r, Hang)
            ELSE RingLoop(bd, r, junction_index, hull.hull, 0),
            d, junction_index, sorted, SetDifference(sorted, hull.hull))

\* RemLoop as a do-while: the body runs before rem.empty() is tested
RemLoop_dowhile(bd, r, d, junction_index, rem) ==
    RemStep(bd, r, d, junction_index, SortSeq(rem, <), RingOf(d, SortSeq(rem, <)))

\* while(!rem.empty())
RemLoop(bd, r, d, junction_index, rem) ==
    IF rem = << >> THEN r
    ELSE RemStep(bd, r, d, junction_index, SortSeq(rem, <), RingOf(d, SortSeq(rem, <)))

\* routing_ground_fn after the loop over gnd_clusters: the index, then the rings
RouteRings(bd, cs, d) ==
    RemLoop(bd, cs.result, d, FillIndex(cs.result), cs.cl_centroids)

routing_ground_fn(bd, w) ==
    [w EXCEPT !.result = RouteRings(bd, ClusterSteps(bd, w.result, w.data, 0, << >>), w.data)]

----------------------------------------------------------------------------
(* SLASupportTree::generate: the loop, progress and program *)

\* std::array<std::function<void()>, NUM_STEPS> program
program(bd, p, w) ==
    CASE p = FILTER -> filterfn(w)
      [] p = PINHEADS -> pinheadfn(w)
      [] p = CLASSIFY -> classifyfn(w)
      [] p = ROUTING_GROUND -> routing_ground_fn(bd, w)
      [] OTHER -> w

\* NextStep with case HALT restarting the pipeline instead of resuming
NextStep_restart(p, prev) ==
    CASE p = BEGIN -> FILTER
      [] p = FILTER -> PINHEADS
      [] p = PINHEADS -> CLASSIFY
      [] p = CLASSIFY -> ROUTING_GROUND
      [] p = ROUTING_GROUND -> ROUTING_NONGROUND
      [] p = ROUTING_NONGROUND -> HEADLESS
      [] p = HEADLESS -> DONE
      [] p = HALT -> BEGIN
      [] OTHER -> p

\* the switch(pc) of progress under START_RESUME
NextStep(p, prev) ==
    CASE p = BEGIN -> FILTER
      [] p = FILTER -> PINHEADS
      [] p = PINHEADS -> CLASSIFY
      [] p = CLASSIFY -> ROUTING_GROUND
      [] p = ROUTING_GROUND -> ROUTING_NONGROUND
      [] p = ROUTING_NONGROUND -> HEADLESS
      [] p = HEADLESS -> DONE
      [] p = HALT -> prev
      [] OTHER -> p

\* ctl.statuscb(stepstate[pc], stepstr[pc])
statuscb(p) == [percent |-> At(stepstate, p), label |-> At(stepstr, p)]

\* progress() for the command c: the new pc and pc_prev and the statuscb calls
progress(c) ==
    CASE c = "START_RESUME" ->
            [pc |-> NextStep(pc, pc_prev), pc_prev |-> pc_prev,
             cb |-> << statuscb(NextStep(pc, pc_prev)) >>]
      [] c = "PAUSE" -> [pc |-> HALT, pc_prev |-> pc, cb |-> << statuscb(HALT) >>]
      [] c = "STOP" -> [pc |-> ABORT, pc_prev |-> pc_prev, cb |-> << statuscb(ABORT) >>]
      [] c = "SYNCH" -> [pc |-> BEGIN, pc_prev |-> pc_prev, cb |-> << >>]

\* the argument of nextcmd with the sense of the test reversed
BlockIf_running(p) == p # HALT

\* ctl.nextcmd(/* block if: */ pc == HALT): the argument
BlockIf(p) == p = HALT

\* LoopCond written as pc != DONE
LoopCond_notdone == pc # DONE

\* while(pc < DONE || pc == HALT)
LoopCond == pc < DONE \/ pc = HALT

\* one turn of the loop in which nextcmd returns c: progress(); program[pc]();
\* in a run of at most max turns
TurnUpTo(c, max) ==
    /\ ret = "running"
    /\ at = "progress"
    /\ LoopCond
    /\ IsTree(result)
    /\ Len(ran) < max
    /\ \E bd \in Builds : \E pr \in {progress(c)} :
       \E w \in {program(bd, pr.pc, [data |-> data, result |-> result])} :
           /\ pc' = pr.pc
           /\ pc_prev' = pr.pc_prev
           /\ cb' = pr.cb
           /\ ran' = Append(ran, pr.pc)
           /\ data' = w.data
           /\ result' = w.result
    /\ cmd' = c
    /\ ncmd' = [ncmd EXCEPT ![c] = @ + 1]
    /\ asked' = Append(asked, [block |-> BlockIf(pc), cmd |-> c])
    /\ UNCHANGED <<scene, ret, copy, host, at, posted, first, call>>

Turn(c) == TurnUpTo(c, MaxCmds)

StartResume == Turn("START_RESUME")

Pause == ncmd["PAUSE"] < MaxPause /\ Turn("PAUSE")

Stop == Turn("STOP")

Synch == ncmd["SYNCH"] < MaxSynch /\ Turn("SYNCH")

\* ReturnValue written as pc >= DONE
ReturnValue_ge == IF pc >= DONE /\ pc # HALT THEN "true" ELSE "false"

\* return pc == ABORT;
ReturnValue == IF pc = ABORT THEN "true" ELSE "false"

\* the loop ends and generate returns
Return ==
    /\ ret = "running"
    /\ at = "progress"
    /\ ~LoopCond
    /\ ret' = ReturnValue
    /\ UNCHANGED <<scene, pc, pc_prev, cmd, ncmd, cb, ran, data, result, copy, host,
                   at, posted, asked, first, call>>

----------------------------------------------------------------------------
(* SLASupportTree copy constructor and operator=, add_sla_supports *)

\* std::vector copy: the elements in a buffer of its own
CopyVec(v) == [el |-> v.el, cap |-> Len(v.el), gen |-> 0]

\* new Impl(*c.m_impl): the member vectors copied element by element; a copied
\* Pillar keeps the headref of the Pillar it was copied from
CopyImpl(c) ==
    [ id |-> CopyId, m_heads |-> CopyVec(c.m_heads), m_pillars |-> CopyVec(c.m_pillars),
      m_junctions |-> CopyVec(c.m_junctions), m_bridges |-> CopyVec(c.m_bridges),
      fault |-> c.fault ]

NoCopy == NewImpl(0)

CopyTree ==
    /\ ret # "running"
    /\ copy = NoCopy
    /\ copy' = CopyImpl(result)
    /\ UNCHANGED <<scene, pc, pc_prev, cmd, ncmd, cb, ran, data, result, ret, host,
                   at, posted, asked, first, call>>

NoHost == [published |-> FALSE, heads |-> 0, tails |-> 0, pillars |-> 0, bases |-> 0,
           junctions |-> 0, bridges |-> 0]

\* the loops of add_sla_supports after _stree.generate(model, cfg, ctl): one
\* volume per mesh of the tree
Volumes(stree) ==
    [ published |-> TRUE,
      heads |-> Len(stree.m_heads.el), tails |-> Len(stree.m_heads.el),
      pillars |-> Len(stree.m_pillars.el), bases |-> Len(stree.m_pillars.el),
      junctions |-> Len(stree.m_junctions.el), bridges |-> Len(stree.m_bridges.el) ]

add_sla_supports ==
    /\ ret # "running"
    /\ ~host.published
    /\ host' = Volumes(result)
    /\ UNCHANGED <<scene, pc, pc_prev, cmd, ncmd, cb, ran, data, result, ret, copy,
                   at, posted, asked, first, call>>

----------------------------------------------------------------------------
(* The specification *)

\* no run was made on the object before this one
NoRun == [done |-> FALSE, cmds |-> << >>, tree |-> NewImpl(0)]

\* no call of cluster_centroid, pts_convex_hull or support_points on its own
NoCall == [f |-> "none", inpts |-> << >>, pts |-> << >>, idx |-> -1, pairs |-> << >>,
           hull |-> << >>, ends |-> TRUE, model |-> << >>, rows |-> << >>,
           head |-> << >>, radius |-> 0, r_low |-> 0, pillar |-> << >>]

\* the scenes of at most MaxPts support points taken from the entries I of Pool
ScenesOver(I) ==
    {[k \in 1 .. Cardinality(S) |-> Pool[SetToSeq(S)[k]].p] :
        S \in {T \in SUBSET I : Cardinality(T) <= MaxPts}}

\* support points on faces that look down
Scenes == ScenesOver(1 .. 4)

\* support points anywhere: also on faces that look up, close above the mesh,
\* and off every face
MeshScenes == ScenesOver(1 .. 13)

\* generate is entered: the locals as declared, the tree as constructed
Entered ==
    /\ pc = BEGIN
    /\ pc_prev = BEGIN
    /\ cmd = "NONE"
    /\ ncmd = [c \in Cmds |-> 0]
    /\ cb = << >>
    /\ ran = << >>
    /\ data = EmptyData
    /\ result = NewImpl(MainId)
    /\ ret = "running"
    /\ copy = NoCopy
    /\ host = NoHost
    /\ at = "progress"
    /\ posted = "NONE"
    /\ asked = << >>
    /\ first = NoRun
    /\ call = NoCall

Init ==
    /\ scene \in Scenes
    /\ pc = BEGIN
    /\ pc_prev = BEGIN
    /\ cmd = "NONE"
    /\ ncmd = [c \in Cmds |-> 0]
    /\ cb = << >>
    /\ ran = << >>
    /\ data = EmptyData
    /\ result = NewImpl(MainId)
    /\ ret = "running"
    /\ copy = NoCopy
    /\ host = NoHost
    /\ at = "progress"
    /\ posted = "NONE"
    /\ asked = << >>
    /\ first = NoRun
    /\ call = NoCall

Next ==
    \/ StartResume
    \/ Pause
    \/ Stop
    \/ Synch
    \/ Return
    \/ CopyTree
    \/ add_sla_supports

Spec == Init /\ [][Next]_vars

\* Runs without PAUSE and SYNCH over the scenes of MeshScenes
InitMesh == scene \in MeshScenes /\ Entered

\* generate is called once more with the same model and configuration, on
\* the same SLASupportTree object (same) or on one just constructed: its
\* locals are new, result is *m_impl of the object it is called on
Regenerate(same) ==
    /\ ret # "running"
    /\ ~first.done
    /\ first' = [done |-> TRUE, cmds |-> [k \in 1 .. Len(asked) |-> asked[k].cmd],
                 tree |-> result]
    /\ pc' = BEGIN
    /\ pc_prev' = BEGIN
    /\ cmd' = "NONE"
    /\ ncmd' = [c \in Cmds |-> 0]
    /\ cb' = << >>
    /\ ran' = << >>
    /\ data' = EmptyData
    /\ asked' = << >>
    /\ ret' = "running"
    /\ result' = IF same THEN result ELSE NewImpl(MainId)
    /\ UNCHANGED <<scene, copy, host, at, posted, call>>

SecondRun == \E same \in BOOLEAN : Regenerate(same)

NextMesh ==
    \/ StartResume
    \/ Stop
    \/ Return
    \/ SecondRun

SpecMesh == InitMesh /\ [][NextMesh]_vars

\* Support points whose pillars stand far apart, every one a cluster of its
\* own: the corners of a triangle and points inside it
RingScenes ==
    {[k \in 1 .. Cardinality(S) |-> Pool[SetToSeq(S)[k]].p] :
        S \in {T \in SUBSET (13 .. 19) : Cardinality(T) <= MaxRingPts}}

\* Runs with START_RESUME only over the scenes of RingScenes
InitRing == scene \in RingScenes /\ Entered

NextRing ==
    \/ StartResume
    \/ Return

SpecRing == InitRing /\ [][NextRing]_vars

\* Support points with room for a pinhead, with the mesh in the way of the
\* pinhead (at less than and at exactly twice the width of a head), on faces
\* that look down, sideways and up
FilterScenes == ScenesOver({1, 2, 5, 6, 20, 21, 22})

\* Runs with START_RESUME and SYNCH over the scenes of FilterScenes
InitFilter == scene \in FilterScenes /\ Entered

NextFilter ==
    \/ StartResume
    \/ Synch
    \/ Return

SpecFilter == InitFilter /\ [][NextFilter]_vars

\* Runs with START_RESUME and SYNCH that are long enough to reach DONE after
\* every SYNCH: MaxCmds turns from BEGIN on, once more after each SYNCH
InitSynch == scene \in ScenesOver({1, 2, 3, 4, 6, 23}) /\ Entered

NextSynch ==
    \/ TurnUpTo("START_RESUME", MaxCmds * (MaxSynch + 1))
    \/ ncmd["SYNCH"] < MaxSynch /\ TurnUpTo("SYNCH", MaxCmds * (MaxSynch + 1))
    \/ Return

SpecSynch == InitSynch /\ [][NextSynch]_vars

----------------------------------------------------------------------------
(* The loop of generate with the host beside it: the host posts commands   *)
(* at any time, progress() and program[pc]() are steps of their own.        *)

\* Controller::nextcmd(block): the posted command if there is one; with
\* nothing posted the call waits when block is set (cmd "NONE": no return
\* yet) and returns START_RESUME otherwise
nextcmd(block) ==
    IF posted # "NONE" THEN posted
    ELSE IF block THEN "NONE" ELSE "START_RESUME"

\* the host posts the command c
Post(c) ==
    /\ ret = "running"
    /\ posted = "NONE"
    /\ ncmd["PAUSE"] < MaxPause \/ c # "PAUSE"
    /\ ncmd["SYNCH"] < MaxSynch \/ c # "SYNCH"
    /\ posted' = c
    /\ UNCHANGED <<scene, pc, pc_prev, cmd, ncmd, cb, ran, data, result, ret, copy, host,
                   at, asked, first, call>>

HostPosts == \E c \in Cmds : Post(c)

\* progress(): the loop condition holds, nextcmd returns, the switch runs
Poll ==
    /\ ret = "running"
    /\ at = "progress"
    /\ LoopCond
    /\ IsTree(result)
    /\ Len(ran) < MaxCmds
    /\ \E c \in {nextcmd(BlockIf(pc))} :
           /\ c # "NONE"
           /\ pc' = progress(c).pc
           /\ pc_prev' = progress(c).pc_prev
           /\ cb' = progress(c).cb
           /\ cmd' = c
           /\ ncmd' = [ncmd EXCEPT ![c] = @ + 1]
           /\ asked' = Append(asked, [block |-> BlockIf(pc), cmd |-> c])
    /\ posted' = "NONE"
    /\ at' = "worker"
    /\ UNCHANGED <<scene, ran, data, result, ret, copy, host, first, call>>

\* program[pc](): the worker of the state progress() left
Work ==
    /\ ret = "running"
    /\ at = "worker"
    /\ \E bd \in Builds :
       \E w \in {program(bd, pc, [data |-> data, result |-> result])} :
           /\ data' = w.data
           /\ result' = w.result
    /\ ran' = Append(ran, pc)
    /\ at' = "progress"
    /\ UNCHANGED <<scene, pc, pc_prev, cmd, ncmd, cb, ret, copy, host, posted, asked,
                   first, call>>

HostScenes == {s \in Scenes : Len(s) <= MaxHostPts}

InitHost == scene \in HostScenes /\ Entered

NextHost ==
    \/ HostPosts
    \/ Poll
    \/ Work
    \/ Return

SpecHost == InitHost /\ [][NextHost]_vars

----------------------------------------------------------------------------
(* cluster_centroid and pts_convex_hull called on their own.  The ids are  *)
(* ascending, as routing_ground_fn hands them over; pts[k] is the point of *)
(* the id at position k.                                                   *)

\* the points of such a call: among them three on a line, a square, and a
\* triangle with a point inside
Grid ==
    { Vec3d(0, 0, 0), Vec3d(1, 0, 0), Vec3d(2, 0, 0), Vec3d(0, 1, 0), Vec3d(1, 1, 0),
      Vec3d(2, 1, 0), Vec3d(1, 2, 0) }

\* the arguments of a call: the ids first_id, first_id + 1, ... and their points q
CallOf(first_id, q) ==
    [NoCall EXCEPT !.inpts = [k \in 1 .. Len(q) |-> first_id + k - 1], !.pts = q]

\* the functor from an id to its point
PointFn(c) == [i \in Range(c.inpts) |-> c.pts[i - c.inpts[1] + 1]]

\* the functor from two points to their distance in XY
DistFn == [a \in Grid, b \in Grid |-> dist_xy(a, b)]

CallCentroid ==
    /\ call.f = "none"
    /\ call' = [call EXCEPT
                   !.f = "cluster_centroid",
                   !.idx = cluster_centroid(call.inpts, PointFn(call), DistFn),
                   !.pairs = IF Len(call.inpts) < 3 THEN << >>
                             ELSE CentroidSums(call.inpts, PointFn(call), DistFn).pairs]
    /\ UNCHANGED <<scene, pc, pc_prev, cmd, ncmd, cb, ran, data, result, ret, copy, host,
                   at, posted, asked, first>>

CallHull ==
    /\ call.f = "none"
    /\ call' = [call EXCEPT
                   !.f = "pts_convex_hull",
                   !.hull = pts_convex_hull(call.inpts, PointFn(call)).hull,
                   !.ends = pts_convex_hull(call.inpts, PointFn(call)).ends]
    /\ UNCHANGED <<scene, pc, pc_prev, cmd, ncmd, cb, ran, data, result, ret, copy, host,
                   at, posted, asked, first>>

\* model_coord(object, mesh_coord): the instance's transform applied to the
\* point; the transforms here are offsets
model_coord(inst, mesh_coord) ==
    Vec3d(mesh_coord.x + inst.x, mesh_coord.y + inst.y, mesh_coord.z + inst.z)

\* The loops of support_points over model.objects, o->instances and
\* o->sla_support_points, at object o, instance k, point j (from 1) with the
\* row counter i, which every instance starts at 0.  A row of rows holds its
\* value and, in by, the triples <<o, k, j>> it was written for.
RECURSIVE SupportLoop(_, _, _, _, _, _)
SupportLoop(model, o, k, j, i, rows) ==
    IF o > Len(model) THEN rows
    ELSE IF k > Len(model[o].instances) THEN SupportLoop(model, o + 1, 1, 1, 0, rows)
    ELSE IF j > Len(model[o].sla_support_points) THEN SupportLoop(model, o, k + 1, 1, 0, rows)
    ELSE SupportLoop(model, o, k, j + 1, i + 1,
             [rows EXCEPT ![i + 1] =
                 [val |-> model_coord(model[o].instances[k], model[o].sla_support_points[j]),
                  by |-> Append(@.by, <<o, k, j>>)]])

\* sum: the rows of ret
RECURSIVE RowSum(_, _)
RowSum(model, o) ==
    IF o > Len(model) THEN 0
    ELSE Len(model[o].instances) * Len(model[o].sla_support_points) + RowSum(model, o + 1)

\* support_points(model); junk: what a row that was never assigned holds
support_points(model, junk) ==
    SupportLoop(model, 1, 1, 1, 0, [r \in 1 .. RowSum(model, 1) |-> [val |-> junk, by |-> << >>]])

\* the objects of a model: with one or two instances (unmoved, moved by
\* (100, 0, 0)), with one or two support points, without instance, without
\* support point
Objects ==
    { [instances |-> << Vec3d(0, 0, 0) >>, sla_support_points |-> << Vec3d(0, 0, 200) >>],
      [instances |-> << Vec3d(0, 0, 0), Vec3d(100, 0, 0) >>,
       sla_support_points |-> << Vec3d(0, 0, 200) >>],
      [instances |-> << Vec3d(0, 0, 0) >>,
       sla_support_points |-> << Vec3d(0, 0, 200), Vec3d(60, 0, 200) >>],
      [instances |-> << Vec3d(0, 0, 0), Vec3d(100, 0, 0) >>,
       sla_support_points |-> << Vec3d(0, 0, 200), Vec3d(60, 0, 200) >>],
      [instances |-> << >>, sla_support_points |-> << Vec3d(0, 0, 200) >>],
      [instances |-> << Vec3d(100, 0, 0) >>, sla_support_points |-> << >>] }

CallSupportPoints ==
    /\ call.f = "none"
    /\ call.inpts = << >>
    /\ \E junk \in {Vec3d(0, 0, 0), Garbage} :
           call' = [call EXCEPT !.f = "support_points",
                                !.rows = support_points(call.model, junk)]
    /\ UNCHANGED <<scene, pc, pc_prev, cmd, ncmd, cb, ran, data, result, ret, copy, host,
                   at, posted, asked, first>>

\* r_low of Head::add_tail(length, radius): the radius of the lower ring of
\* the tail, from which the pillar's mesh starts
tail_r_low(h, radius) == request_pillar_radius(h, radius)

\* A head gets its tail and a pillar is built from it, the way every loop of
\* classifyfn and routing_ground_fn does it: add_tail() without arguments,
\* which makes its radius -1, then Pillar(head, endpoint, pillar_radius_mm).
\* call.radius is the configured pillar radius.
CallTailPillar ==
    /\ call.f = "none"
    /\ Len(call.head) = 1
    /\ call' = [call EXCEPT
                   !.f = "add_tail",
                   !.head = << add_tail(transform(call.head[1], FALSE), FALSE) >>,
                   !.r_low = tail_r_low(call.head[1], -1),
                   !.pillar = << Pillar(add_tail(transform(call.head[1], FALSE), FALSE),
                                        [impl |-> MainId, gen |-> 0, idx |-> 0],
                                        Vec3d(call.head[1].tr.x, call.head[1].tr.y, 0),
                                        call.radius) >>]
    /\ UNCHANGED <<scene, pc, pc_prev, cmd, ncmd, cb, ran, data, result, ret, copy, host,
                   at, posted, asked, first>>

InitFn ==
    /\ scene = << >>
    /\ pc = BEGIN
    /\ pc_prev = BEGIN
    /\ cmd = "NONE"
    /\ ncmd = [c \in Cmds |-> 0]
    /\ cb = << >>
    /\ ran = << >>
    /\ data = EmptyData
    /\ result = NewImpl(MainId)
    /\ ret = "running"
    /\ copy = NoCopy
    /\ host = NoHost
    /\ at = "progress"
    /\ posted = "NONE"
    /\ asked = << >>
    /\ first = NoRun
    /\ \/ \E n \in 0 .. MaxIds : \E first_id \in {0, 1} : \E q \in [1 .. n -> Grid] :
              call = CallOf(first_id, q)
       \/ \E n \in 1 .. MaxObjs : \E objs \in [1 .. n -> Objects] :
              call = [NoCall EXCEPT !.model = objs]
       \* heads of back radius 1 mm and 2 mm, of which 0.65 is a whole number
       \* of units; pillar radii below, inside and above (0, r_back)
       \/ \E r_back \in {20, 40} : \E radius \in {-1, 0, 6, 13, 19, 20, 26, 39, 40, 50} :
              call = [NoCall EXCEPT
                         !.head = << MkHead(r_back, cfg.head_front_radius_mm,
                                            cfg.head_width_mm, Down, Vec3d(0, 0, 200)) >>,
                         !.radius = radius]

NextFn ==
    \/ CallCentroid
    \/ CallHull
    \/ CallSupportPoints
    \/ CallTailPillar

SpecFn == InitFn /\ [][NextFn]_vars

----------------------------------------------------------------------------
(* Properties *)

OnlyStart == ncmd["PAUSE"] = 0 /\ ncmd["STOP"] = 0 /\ ncmd["SYNCH"] = 0

Pipeline == << FILTER, PINHEADS, CLASSIFY, ROUTING_GROUND, ROUTING_NONGROUND, HEADLESS, DONE >>

IsPrefix(a, b) == Len(a) <= Len(b) /\ \A k \in 1 .. Len(a) : a[k] = b[k]

\* this step is a turn of the loop: a command was read and a worker ran
IsTurn == Len(ran') = Len(ran) + 1

Heads == {result.m_heads.el[k] : k \in 1 .. Len(result.m_heads.el)}

Bridges == {result.m_bridges.el[k] : k \in 1 .. Len(result.m_bridges.el)}

PillarsOf(m) == {m.m_pillars.el[k] : k \in 1 .. Len(m.m_pillars.el)}

\* C1: while every command read is START_RESUME, the states entered and the
\* workers run are FILTER, PINHEADS, ..., DONE in this order, each once, every
\* worker returns so that the run moves on, and generate leaves the loop
\* after the worker of DONE, in state DONE.
C1_StartOnlyRunsThePipeline ==
    OnlyStart =>
        /\ IsPrefix(ran, Pipeline)
        /\ result.fault = "none"
        /\ (ret # "running" => ran = Pipeline /\ pc = DONE)

\* C2: transform() and add_tail() are called at most once on every head, and
\* never after a pillar was built from the head.
C2_HeadMutatedOnceBeforePillar ==
    \A h \in Heads : h.ntransform <= 1 /\ h.ntail <= 1 /\ ~h.late

\* C3: a PAUSE read in a state s other than HALT makes the state HALT, saves
\* s in pc_prev and reports percent 0; START_RESUME read next makes the state
\* s again; STOP read next makes it ABORT, and generate then returns true.
C3_PauseThenResumeOrStop ==
    /\ [][IsTurn =>
            /\ (cmd' = "PAUSE" /\ pc # HALT =>
                    /\ pc' = HALT
                    /\ pc_prev' = pc
                    /\ Len(cb') = 1
                    /\ cb'[1].percent = 0)
            /\ (cmd = "PAUSE" /\ pc_prev # HALT /\ cmd' = "START_RESUME" =>
                    pc' = pc_prev)
            /\ (cmd = "PAUSE" /\ pc_prev # HALT /\ cmd' = "STOP" => pc' = ABORT)]_vars
    /\ [][pc = ABORT /\ ret = "running" => ret' = "true"]_vars

\* C3 witness: a PAUSE read in FILTER was followed by a START_RESUME that
\* resumed FILTER.
C3_Witness ==
    \E i \in 2 .. Len(ran) - 1 :
        ran[i - 1] = FILTER /\ ran[i] = HALT /\ ran[i + 1] = FILTER /\ cmd = "START_RESUME"

\* C4: a STOP read while the loop runs makes the state ABORT and reports
\* percent 0 without touching the tree; from then on no command is read, no
\* worker runs and the tree and the shared data stay as they are.
C4_StopAborts ==
    /\ [][IsTurn /\ cmd' = "STOP" =>
            /\ pc' = ABORT
            /\ Len(cb') = 1
            /\ cb'[1].percent = 0
            /\ result' = result]_vars
    /\ [][pc = ABORT =>
            /\ pc' = ABORT
            /\ ran' = ran
            /\ ncmd' = ncmd
            /\ result' = result
            /\ data' = data]_vars

\* C4 witness: generate has returned after a STOP read when heads and pillars
\* were already in the tree.
C4_Witness ==
    /\ pc = ABORT
    /\ cmd = "STOP"
    /\ ret = "true"
    /\ Len(result.m_heads.el) > 0
    /\ Len(result.m_pillars.el) > 0

\* C5: generate returns only in state DONE or ABORT, and it returns true
\* exactly when the state is ABORT.
C5_ReturnsTrueIffAbort ==
    ret # "running" =>
        /\ pc \in {DONE, ABORT}
        /\ (ret = "true" <=> pc = ABORT)
        /\ (pc = DONE => ret = "false")

\* C5 witness: generate has returned false in state DONE.
C5_Witness == ret = "false" /\ pc = DONE /\ Len(ran) = Len(Pipeline)

\* C6: after a run that ended in ABORT, add_sla_supports has added no volume
\* of the tree to the host model.
C6_NothingPublishedOnAbort ==
    host.published /\ pc = ABORT =>
        /\ host.heads = 0 /\ host.tails = 0 /\ host.pillars = 0
        /\ host.bases = 0 /\ host.junctions = 0 /\ host.bridges = 0

\* C7: the references add_junction returned are valid when add_bridge reads
\* the junctions through them: every bridge was built from two valid references.
C7_BuilderReferencesStayValid ==
    \A b \in Bridges : b.j1ok /\ b.j2ok

\* C8: in the tree and in a copy of it, the headref of every pillar designates
\* a head stored in the head container of that same model.
C8_HeadrefInSameModel ==
    \A m \in {result, copy} :
        \A p \in PillarsOf(m) : p.headref.impl = m.id /\ RefValid(m.m_heads, p.headref)

\* the percentages of the states BEGIN .. DONE, HALT and ABORT
PercentOf(p) ==
    CASE p = BEGIN -> 0
      [] p = FILTER -> 10
      [] p = PINHEADS -> 30
      [] p = CLASSIFY -> 50
      [] p = ROUTING_GROUND -> 60
      [] p = ROUTING_NONGROUND -> 70
      [] p = HEADLESS -> 80
      [] p = DONE -> 100
      [] OTHER -> 0

\* C9: a START_RESUME that puts the machine into state s calls statuscb once,
\* with the percentage of s; a PAUSE and a STOP call it once with percent 0.
C9_ProgressPercent ==
    [][IsTurn =>
        /\ (cmd' = "START_RESUME" => Len(cb') = 1 /\ cb'[1].percent = PercentOf(pc'))
        /\ (cmd' \in {"PAUSE", "STOP"} => Len(cb') = 1 /\ cb'[1].percent = 0)]_vars

\* C9 witness: the START_RESUME that entered DONE reported percent 100.
C9_Witness ==
    cmd = "START_RESUME" /\ pc = DONE /\ Len(cb) = 1 /\ cb[1].percent = 100

\* the label of every state, one per state
LabelOf(p) ==
    CASE p = BEGIN -> ""
      [] p = FILTER -> "Filtering"
      [] p = PINHEADS -> "Generate pinheads"
      [] p = CLASSIFY -> "Classification"
      [] p = ROUTING_GROUND -> "Routing to ground"
      [] p = ROUTING_NONGROUND -> "Routing supports to model surface"
      [] p = HEADLESS -> "Processing small holes"
      [] p = DONE -> "Done"
      [] p = HALT -> "Halt"
      [] OTHER -> "Abort"

\* C10: every call of statuscb carries the label of the state entered, each
\* state having its own label: (0, "Abort") for a STOP, (0, "Halt") for a
\* PAUSE, (100, "Done") on entering DONE.
C10_ProgressLabel ==
    cb # << >> => cb = << [percent |-> PercentOf(pc), label |-> LabelOf(pc)] >>

\* the scene has a support point that lies on no face of the mesh
OffMesh == \E k \in 1 .. Len(scene) : ~MeshAt(scene[k]).onface

\* C11: when a support point of the input lies on no face of the mesh, the
\* run ends in ABORT and its last report is statuscb(0, "Abort").
C11_OffMeshPointAborts ==
    (OffMesh /\ ret # "running") =>
        (pc = ABORT /\ cb = << [percent |-> 0, label |-> "Abort"] >>)

\* a step that calls nextcmd / that runs a worker
IsPoll == Len(asked') = Len(asked) + 1
IsWork == Len(ran') = Len(ran) + 1

\* C12: every loop iteration calls nextcmd once, before its worker, and asks
\* it to block exactly when the state is HALT; while a worker is due or
\* running the planner state does not change, whatever the host posts, and a
\* command posted then stays posted until the worker is over.
C12_OneNextcmdBeforeEachWorker ==
    [][ /\ IsPoll => /\ Len(asked) = Len(ran)
                     /\ asked'[Len(asked')].block = (pc = HALT)
                     /\ ran' = ran
        /\ IsWork => /\ Len(asked) = Len(ran) + 1
                     /\ asked' = asked
        /\ at = "worker" => /\ pc' = pc /\ pc_prev' = pc_prev /\ cb' = cb
                            /\ posted # "NONE" => posted' = posted
        /\ (pc' # pc \/ pc_prev' # pc_prev) => IsPoll
      ]_vars

\* a STOP posted while the worker of CLASSIFY is due, in a run that was
\* paused before and whose nextcmd call in HALT was a blocking one
C12_Witness ==
    /\ at = "worker"
    /\ pc = CLASSIFY
    /\ posted = "STOP"
    /\ \E k \in 1 .. Len(asked) : asked[k].block
    /\ \E k \in 1 .. Len(asked) : ~asked[k].block

\* the tree model: the heads, pillars, junctions and bridges present
TreeOf(r) ==
    [ heads |-> r.m_heads.el, pillars |-> r.m_pillars.el,
      junctions |-> r.m_junctions.el, bridges |-> r.m_bridges.el ]

\* the commands read in this run
CmdsRead == [k \in 1 .. Len(asked) |-> asked[k].cmd]

\* C13: a second run with the same model, configuration and commands as the
\* first ends with the same heads, pillars, junctions and bridges as the
\* first, also when it is made on the same SLASupportTree object.
C13_SecondRunSameTree ==
    (first.done /\ ret # "running" /\ CmdsRead = first.cmds) =>
        TreeOf(result) = TreeOf(first.tree)

\* C14: after a run that reached DONE no pillar of the tree ends above the
\* junction point of the head it references.
C14_PillarEndsBelowItsHead ==
    (pc = DONE /\ IsTree(result)) =>
        \A p \in PillarsOf(result) :
            p.endpoint.z <= junction_point(At(result.m_heads.el, p.headref.idx)).z

\* C15: every bridge of the tree was made after a ray cast from its start
\* junction towards its end junction that returned a hit distance not smaller
\* than the 2D distance of the two pillars it connects.
C15_BridgeAfterClearRayCast ==
    \A b \in Bridges : b.cast.made /\ GeqDist(b.cast.chkd, b.cast.dist)

\* the positions of the ids of the call
Positions == 0 .. Len(call.inpts) - 1

\* the sum of the distances from the member at position i to the others
SumOf(i) == SumDist(call.inpts, i, PointFn(call), DistFn)

\* C16: cluster_centroid returns -1 exactly for an empty cluster and 0 for
\* a cluster of 1 or 2; for 3 or more it takes every unordered pair of
\* members once and returns the position of the member with the least sum of
\* distances to the others, the lowest such position.
C16_CentroidIsLeastSum ==
    call.f = "cluster_centroid" =>
        /\ call.idx = -1 <=> Len(call.inpts) = 0
        /\ Len(call.inpts) \in {1, 2} => call.idx = 0
        /\ Len(call.inpts) >= 3 =>
              /\ \A i, j \in Positions :
                    i < j => Cardinality({k \in 1 .. Len(call.pairs) :
                                             call.pairs[k] = << i, j >>}) = 1
              /\ \A k \in 1 .. Len(call.pairs) : call.pairs[k][1] < call.pairs[k][2]
              /\ call.idx \in Positions
              /\ \A j \in Positions : SumOf(call.idx) <= SumOf(j)
              /\ \A j \in Positions : j < call.idx => SumOf(call.idx) < SumOf(j)

\* a cluster of four in which two members have the least sum and the one in
\* front of the other is returned, not the first of the cluster
C16_Witness ==
    /\ call.f = "cluster_centroid"
    /\ Len(call.inpts) = 4
    /\ call.idx = 1
    /\ \E j \in Positions : j > 1 /\ SumOf(j) = SumOf(1)
    /\ Len(call.pairs) = 6

\* C17: every element of the output of pts_convex_hull is an element of the
\* input index list and appears in the output once; fewer than three input
\* points are returned as they are.
C17_HullListsInputIds ==
    (call.f = "pts_convex_hull" /\ call.ends) =>
        /\ \A k \in 1 .. Len(call.hull) : call.hull[k] \in Range(call.inpts)
        /\ \A k, l \in 1 .. Len(call.hull) : call.hull[k] = call.hull[l] => k = l
        /\ Len(call.inpts) < 3 => call.hull = call.inpts

\* the point at position i of the call
PointAt(i) == At(call.pts, i)

\* the points of the call are not all on one line
NotAllCollinear ==
    \E i, j, k \in Positions : orientation(PointAt(i), PointAt(j), PointAt(k)) # 0

\* position i holds the leftmost point, the lowest of the leftmost
IsLeftmostLowest(i) ==
    \A j \in Positions :
        \/ PointAt(i).x < PointAt(j).x
        \/ PointAt(i).x = PointAt(j).x /\ PointAt(i).y <= PointAt(j).y

\* twice the signed area of the polygon through the points at the positions
\* of hull, in this order
RECURSIVE Area2(_, _)
Area2(hull, k) ==
    IF k > Len(hull) THEN 0
    ELSE PointAt(hull[k]).x * PointAt(hull[(k % Len(hull)) + 1]).y
         - PointAt(hull[(k % Len(hull)) + 1]).x * PointAt(hull[k]).y
         + Area2(hull, k + 1)

\* C18: for three or more input points that are not all on one line,
\* pts_convex_hull ends, its output starts at the leftmost point (the lowest
\* of the leftmost) and goes round counterclockwise: the signed area of the
\* output polygon is not negative.
C18_HullEndsCounterClockwise ==
    (call.f = "pts_convex_hull" /\ Len(call.inpts) >= 3 /\ NotAllCollinear) =>
        /\ call.ends
        /\ IsLeftmostLowest(call.hull[1])
        /\ Area2(call.hull, 1) >= 0

\* ROUTING_GROUND has just run, for the first time in this run and on a
\* tree built by this run, and has returned
RoutedOnce ==
    /\ ran = << FILTER, PINHEADS, CLASSIFY, ROUTING_GROUND >>
    /\ ~first.done
    /\ IsTree(result)

\* the ids of the heads of the cluster cl, and of its elected head
ClusterHeads(cl) == {At(data.ground_heads, c) : c \in Range(cl)}
MainOf(cl) == At(data.ground_heads, At(cl, Centroid(data, cl)))

\* the junction point of the head with id h
JunctionOf(h) == junction_point(At(result.m_heads.el, h))

\* every side head of cl lands on the main pillar above the ground: jn(Z) > 0
AllLandAbove(cl) ==
    \A h \in ClusterHeads(cl) \ {MainOf(cl)} :
        SideJn(SideJp(At(result.m_heads.el, h)), JunctionOf(MainOf(cl))).z > 0

\* the pillars built from heads of S, with a base (b) or without
PillarsFrom(S, b) ==
    {i \in 1 .. Len(result.m_pillars.el) :
        result.m_pillars.el[i].headref.idx \in S /\ has_base(result.m_pillars.el[i]) = b}

\* the junctions at the XY position of p
JunctionsAt(p) ==
    {i \in 1 .. Len(result.m_junctions.el) :
        result.m_junctions.el[i].pos.x = p.x /\ result.m_junctions.el[i].pos.y = p.y}

\* the bridges of side heads that end at the XY position of p
SideBridgesTo(p) ==
    {i \in 1 .. Len(result.m_bridges.el) :
        /\ ~result.m_bridges.el[i].cast.made
        /\ result.m_bridges.el[i].j2.x = p.x /\ result.m_bridges.el[i].j2.y = p.y}

\* C19: for a cluster of k >= 2 grounded heads whose side heads all land on
\* the main pillar above the ground, ROUTING_GROUND makes one pillar with a
\* base, from the elected head down to z = 0, k - 1 side pillars without a
\* base, k - 1 bridges, and k - 1 junctions at the XY position of the main
\* pillar.
C19_ClusterOfSideHeads ==
    RoutedOnce =>
        \A cl \in Range(data.ground_connectors) :
            (Len(cl) >= 2 /\ AllLandAbove(cl)) =>
                /\ PillarsFrom(ClusterHeads(cl), TRUE) = PillarsFrom({MainOf(cl)}, TRUE)
                /\ Cardinality(PillarsFrom({MainOf(cl)}, TRUE)) = 1
                /\ \A i \in PillarsFrom({MainOf(cl)}, TRUE) :
                      /\ result.m_pillars.el[i].endpoint.z = 0
                      /\ result.m_pillars.el[i].endpoint.x = JunctionOf(MainOf(cl)).x
                      /\ result.m_pillars.el[i].endpoint.y = JunctionOf(MainOf(cl)).y
                /\ Cardinality(PillarsFrom(ClusterHeads(cl), FALSE)) = Len(cl) - 1
                /\ PillarsFrom({MainOf(cl)}, FALSE) = {}
                /\ Cardinality(SideBridgesTo(JunctionOf(MainOf(cl)))) = Len(cl) - 1
                /\ Cardinality(JunctionsAt(JunctionOf(MainOf(cl)))) = Len(cl) - 1

\* the junctions at the XY position of p that the loop over gnd_clusters
\* made: it makes two junctions, jp and jn, with every bridge of a side head,
\* before the ring weaving adds its own
ClusterJunctionsAt(p) ==
    {i \in JunctionsAt(p) :
        i <= 2 * Cardinality({b \in 1 .. Len(result.m_bridges.el) :
                                 ~result.m_bridges.el[b].cast.made})}

\* C19 as the code has it: for a cluster of k >= 2 grounded heads whose side
\* heads all land on the main pillar above the ground, the loop over the
\* clusters makes one pillar with a base, from the elected head down to
\* z = 0, k - 1 side pillars without a base, k - 1 bridges, and k - 1
\* junctions at the XY position of the main pillar; the ring weaving that
\* follows may add junctions there.
C19_ClusterStepOfSideHeads ==
    RoutedOnce =>
        \A cl \in Range(data.ground_connectors) :
            (Len(cl) >= 2 /\ AllLandAbove(cl)) =>
                /\ PillarsFrom(ClusterHeads(cl), TRUE) = PillarsFrom({MainOf(cl)}, TRUE)
                /\ Cardinality(PillarsFrom({MainOf(cl)}, TRUE)) = 1
                /\ \A i \in PillarsFrom({MainOf(cl)}, TRUE) :
                      /\ result.m_pillars.el[i].endpoint.z = 0
                      /\ result.m_pillars.el[i].endpoint.x = JunctionOf(MainOf(cl)).x
                      /\ result.m_pillars.el[i].endpoint.y = JunctionOf(MainOf(cl)).y
                /\ Cardinality(PillarsFrom(ClusterHeads(cl), FALSE)) = Len(cl) - 1
                /\ PillarsFrom({MainOf(cl)}, FALSE) = {}
                /\ Cardinality(SideBridgesTo(JunctionOf(MainOf(cl)))) = Len(cl) - 1
                /\ Cardinality(ClusterJunctionsAt(JunctionOf(MainOf(cl)))) = Len(cl) - 1
                /\ Cardinality(JunctionsAt(JunctionOf(MainOf(cl)))) >= Len(cl) - 1

\* a cluster of three heads routed: one main pillar, two side pillars
C19_Witness ==
    /\ RoutedOnce
    /\ \E cl \in Range(data.ground_connectors) :
          /\ Len(cl) = 3
          /\ AllLandAbove(cl)
          /\ Cardinality(PillarsFrom(ClusterHeads(cl), FALSE)) = 2
          /\ Cardinality(JunctionsAt(JunctionOf(MainOf(cl)))) = 2

\* the first run on a new tree, with START_RESUME only, over the single
\* support point of the scene, whose face normal is n and whose ray straight
\* down misses the mesh
OnePointRun(n) ==
    /\ Len(scene) = 1
    /\ MeshAt(scene[1]).onface
    /\ normals(scene[1]) = n
    /\ MeshAt(scene[1]).tdown = Inf
    /\ OnlyStart
    /\ ~first.done

\* the tree has one head, one pillar with a base that ends at z = 0, no
\* junction and no bridge
OneGroundedPillar ==
    /\ Len(result.m_heads.el) = 1
    /\ Len(result.m_pillars.el) = 1
    /\ result.m_pillars.el[1].endpoint.z = 0
    /\ has_base(result.m_pillars.el[1])
    /\ Len(result.m_junctions.el) = 0
    /\ Len(result.m_bridges.el) = 0

\* the tree has no head, pillar, junction or bridge
EmptyTree ==
    /\ Len(result.m_heads.el) = 0
    /\ Len(result.m_pillars.el) = 0
    /\ Len(result.m_junctions.el) = 0
    /\ Len(result.m_bridges.el) = 0

\* C20: for a single support point whose face normal is (0,0,1) and whose
\* downward ray does not hit the mesh, a run with START_RESUME only ends
\* with 1 head, 1 pillar with endpoint.z = 0 and a base, no junctions and no
\* bridges.
C20_UpwardFaceGetsPillar ==
    (OnePointRun(Up) /\ pc = DONE) => OneGroundedPillar

\* C20 as the code has it: a single support point on a face with normal
\* (0,0,1) is dropped by the filter, the tree stays empty through the whole
\* run; on a face with normal (0,0,-1) the run ends with 1 head, 1 pillar
\* with endpoint.z = 0 and a base, no junctions and no bridges.
C20_UpwardFaceDropped ==
    /\ OnePointRun(Up) => EmptyTree
    /\ (OnePointRun(Down) /\ pc = DONE) => OneGroundedPillar

\* the run over a point on an upward face has ended, with nothing built
C20_Witness ==
    /\ OnePointRun(Up)
    /\ pc = DONE
    /\ ret = "false"
    /\ ran = Pipeline
    /\ EmptyTree

\* the first run on a new tree has run filterfn and pinheadfn
HeadsPinned ==
    /\ ~first.done
    /\ Len(ran) >= 2
    /\ ran[1] = FILTER
    /\ ran[2] = PINHEADS

\* C21: whenever two input support points are closer than D_SP to each other,
\* at most one head is created for them: after FILTER and PINHEADS no two
\* heads have anchor positions closer than D_SP.
C21_NoTwoHeadsCloserThanDSP ==
    HeadsPinned =>
        \A i, j \in 1 .. Len(result.m_heads.el) :
            i # j => ~TooClose(result.m_heads.el[i].tr, result.m_heads.el[j].tr)

\* C22: with an empty support-point set and a controller that only answers
\* START_RESUME, every worker returns with the tree still empty, generate
\* leaves the loop in DONE only, and the last statuscb call made when DONE is
\* entered carries percent 100.
C22_EmptySceneEmptyTree ==
    (scene = << >> /\ OnlyStart /\ ~first.done) =>
        /\ IsTree(result)
        /\ EmptyTree
        /\ IsPrefix(ran, Pipeline)
        /\ ret # "running" => (pc = DONE /\ ret = "false")
        /\ pc = DONE => (cb # << >> /\ cb[Len(cb)].percent = 100)

\* the run over the empty scene has returned from DONE
C22_Witness ==
    /\ scene = << >>
    /\ OnlyStart
    /\ ran = Pipeline
    /\ pc = DONE
    /\ ret = "false"
    /\ EmptyTree
    /\ cb[Len(cb)].percent = 100

\* the (object, instance, support point) triples of the model of the call
Triples ==
    {t \in (1 .. MaxObjs + 1) \X (1 .. 2) \X (1 .. 2) :
        /\ t[1] <= Len(call.model)
        /\ t[2] <= Len(call.model[t[1]].instances)
        /\ t[3] <= Len(call.model[t[1]].sla_support_points)}

\* C23: support_points returns one row for every (object, instance, support
\* point) triple of the model, holding that support point transformed by that
\* instance's transform; no row of the result is left unwritten and no row is
\* written for two different triples.
C23_OneRowPerTriple ==
    call.f = "support_points" =>
        /\ Len(call.rows) = Cardinality(Triples)
        /\ \A r \in 1 .. Len(call.rows) : Len(call.rows[r].by) = 1
        /\ \A t \in Triples :
               \E r \in 1 .. Len(call.rows) :
                   /\ call.rows[r].by = << t >>
                   /\ call.rows[r].val =
                          model_coord(call.model[t[1]].instances[t[2]],
                                      call.model[t[1]].sla_support_points[t[3]])

\* C24: the ring-weaving loop terminates for every set of cluster centroids:
\* each iteration removes the members of the computed ring from rem, so the
\* worker of ROUTING_GROUND returns whenever the weaving of every pair does.
C24_RingLoopTerminates ==
    (/\ ~first.done
     /\ ROUTING_GROUND \in Range(ran)
     /\ \A k \in 1 .. Len(result.woven) : result.woven[k].ended) => result.fault # Hang

\* the worker of ROUTING_GROUND has run, for the first time, on a tree built
\* by this run
RoutingRan ==
    /\ ran = << FILTER, PINHEADS, CLASSIFY, ROUTING_GROUND >>
    /\ ~first.done

\* cl_centroids, and the ring of the first turn of while(!rem.empty())
ClCentroids ==
    [k \in 1 .. Len(data.ground_connectors) |->
        At(data.ground_connectors[k], Centroid(data, data.ground_connectors[k]))]
FirstRing == RingOf(data, SortSeq(ClCentroids, <)).hull

\* C25: in ring weaving, for every ring member cur (a cluster centroid) the
\* pillar used as cur's pillar, result.pillars()[cur], is the main pillar
\* that was built from cur's head: it exists, has a base, and its headref is
\* the head of centroid cur.
C25_RingPillarIsTheCentroidsPillar ==
    (RoutingRan /\ Len(FirstRing) >= 2) =>
        \A k \in 1 .. Len(FirstRing) :
            /\ FirstRing[k] < Len(result.m_pillars.el)
            /\ has_base(At(result.m_pillars.el, FirstRing[k]))
            /\ At(result.m_pillars.el, FirstRing[k]).headref.idx
                   = At(data.ground_heads, FirstRing[k])

\* the junctions that exist when the weaving starts on the pair e and lie
\* within 2D distance 2 * r of its current pillar
NearJunctions(e) ==
    {j \in 1 .. e.njunc :
        dist2_2d(result.m_junctions.el[j].pos, At(result.m_pillars.el, e.it).endpoint)
            < Sq(2 * At(result.m_pillars.el, e.it).r)}

\* C26: when at least one junction lies within 2D distance 2*r of the current
\* pillar, the weaving start point sj is the position of the junction with
\* the greatest z among them; when none does, sj is the junction point of the
\* pillar's head.
C26_WeaveStartsAtHighestJunction ==
    ~first.done =>
        \A k \in 1 .. Len(result.woven) :
            IF NearJunctions(result.woven[k]) = {}
            THEN result.woven[k].sj =
                     junction_point(HeadOf(result,
                         At(result.m_pillars.el, result.woven[k].it).headref))
            ELSE \E j \in NearJunctions(result.woven[k]) :
                     /\ result.woven[k].sj = result.m_junctions.el[j].pos
                     /\ \A i \in NearJunctions(result.woven[k]) :
                            result.m_junctions.el[i].pos.z <= result.m_junctions.el[j].pos.z

\* C27: every junction added to the tree during ROUTING_GROUND, including
\* each junction created while weaving a ring, is present in the junction
\* spatial index before the next pillar pair is processed: when the weaving
\* starts on a pair, the index holds as many junctions as the tree.
C27_JunctionsIndexedBeforeNextPair ==
    ~first.done =>
        \A k \in 1 .. Len(result.woven) :
            result.woven[k].indexed = result.woven[k].njunc

\* C28: the bridge-weaving loop for a pillar pair terminates, for every pair
\* of pillar positions, including two pillars at the same XY position.
C28_WeaveLoopTerminates ==
    ~first.done => \A k \in 1 .. Len(result.woven) : result.woven[k].ended

\* C29: whenever the cluster step creates the landing junction jn for a side
\* head (the second junction of the bridge it makes), jn lies on the main
\* pillar of a cluster: its XY equals the main head's junction point XY and
\* 0 < jn.z <= z of the main head's junction point.
C29_LandingJunctionOnMainPillar ==
    RoutingRan =>
        \A b \in 1 .. Len(result.m_bridges.el) :
            ~result.m_bridges.el[b].cast.made =>
                \E cl \in Range(data.ground_connectors) :
                    /\ result.m_bridges.el[b].j2.x = JunctionOf(MainOf(cl)).x
                    /\ result.m_bridges.el[b].j2.y = JunctionOf(MainOf(cl)).y
                    /\ 0 < result.m_bridges.el[b].j2.z
                    /\ result.m_bridges.el[b].j2.z <= JunctionOf(MainOf(cl)).z

\* classifyfn has just run, for the first time in this run, on a tree built
\* by this run: result.pillars()[k] is the pillar of the head nogndidx[k]
Classified ==
    /\ ran = << FILTER, PINHEADS, CLASSIFY >>
    /\ ~first.done

\* the head nogndidx[k], the hit distance of its downward ray, its pillar
NogndHead(k) == At(result.m_heads.el, At(data.noground_heads, k))
NogndHit(k) == At(data.head_heights, At(data.noground_heads, k))
NogndPillar(k) == At(result.m_pillars.el, k)

\* C30: for a non-grounded head whose downward ray hits the mesh at distance
\* t, the pillar built in CLASSIFY ends t - r_pin below the head's junction
\* point: endpoint.z = junction_point.z - (t - r_pin), with endpoint XY equal
\* to the junction point XY.
C30_PillarEndsRpinAboveHit ==
    Classified =>
        \A k \in 0 .. Len(data.noground_heads) - 1 :
            /\ NogndPillar(k).endpoint.x = junction_point(NogndHead(k)).x
            /\ NogndPillar(k).endpoint.y = junction_point(NogndHead(k)).y
            /\ NogndPillar(k).endpoint.z =
                   junction_point(NogndHead(k)).z - (NogndHit(k) - NogndHead(k).r_pin_mm)

\* C30 as the code has it: the pillar ends t - hl below the head's junction
\* point, hl = fullwidth - r_back being the length left for the inverted
\* pinhead: endpoint.z = junction_point.z - t + hl, with endpoint XY equal to
\* the junction point XY.
C30_PillarEndsHeadLengthAboveHit ==
    Classified =>
        \A k \in 0 .. Len(data.noground_heads) - 1 :
            /\ NogndPillar(k).headref.idx = At(data.noground_heads, k)
            /\ NogndPillar(k).endpoint.x = junction_point(NogndHead(k)).x
            /\ NogndPillar(k).endpoint.y = junction_point(NogndHead(k)).y
            /\ NogndPillar(k).endpoint.z =
                   junction_point(NogndHead(k)).z - NogndHit(k)
                       + (fullwidth(NogndHead(k)) - NogndHead(k).r_back_mm)

\* two non-grounded heads have their pillars, one of them on a tilted head
C30_Witness ==
    /\ Classified
    /\ Len(data.noground_heads) = 2
    /\ Len(result.m_pillars.el) = 2
    /\ \E k \in 0 .. 1 :
          /\ NogndHead(k).dir = Tilted
          /\ NogndHit(k) = 30
          /\ NogndPillar(k).endpoint.z = junction_point(NogndHead(k)).z + 8

\* a tail was added to a head and a pillar built from the head
TailedPillar == call.f = "add_tail" /\ Len(call.pillar) = 1

\* C31: the lower radius of the tail of the head a pillar was built from is
\* the pillar's radius r, and r is the configured pillar radius when that
\* lies in (0, r_back) and 0.65 * r_back otherwise.
C31_TailEndsAtPillarRadius ==
    TailedPillar =>
        /\ call.r_low = call.pillar[1].r
        /\ call.pillar[1].r =
              IF call.radius > 0 /\ call.radius < call.head[1].r_back_mm
              THEN call.radius
              ELSE (65 * call.head[1].r_back_mm) \div 100

\* the positions of the point p in the sequence q
PlacesIn(q, p) == {k \in 1 .. Len(q) : q[k] = p}

\* the clearance ray of the point p gave no hit, or one beyond twice the
\* width w of a head
PinheadFits(p) ==
    \/ MeshAt(p).tpin = Inf
    \/ MeshAt(p).tpin > 2 * (cfg.head_width_mm + cfg.head_back_radius_mm
                                + 2 * cfg.head_front_radius_mm)

\* C32: in FILTER each deduplicated point ends up in exactly one place: in
\* neither output when the polar angle of its normal is below pi/2 (the face
\* looks up); otherwise in head_positions, with its corrected normal at the
\* same index of filtered_normals, when the clearance ray returns t > 2*w or
\* no hit, and in headless_positions when it does not.
C32_FilterPutsEachPointInOnePlace ==
    /\ Len(data.filtered_normals) = Len(data.head_positions)
    /\ \A k \in 1 .. Len(data.head_positions) :
          PlacesIn(data.filtered_points, data.head_positions[k]) # {}
    /\ \A k \in 1 .. Len(data.headless_positions) :
          PlacesIn(data.filtered_points, data.headless_positions[k]) # {}
    /\ \A k \in 1 .. Len(data.filtered_points) :
          LET p == data.filtered_points[k]
              heads == PlacesIn(data.head_positions, p)
              headless == PlacesIn(data.headless_positions, p)
          IN  IF normals(p).z > 0
              THEN heads = {} /\ headless = {}
              ELSE IF PinheadFits(p)
              THEN /\ Cardinality(heads) = 1
                   /\ headless = {}
                   /\ \A i \in heads : data.filtered_normals[i] = Saturate(normals(p))
              ELSE /\ heads = {}
                   /\ Cardinality(headless) = 1

\* FILTER ran over a point that was dropped, a point that got a head
\* position and a point that went to the headless positions
C32_Witness ==
    /\ Len(ran) >= 1
    /\ ran[Len(ran)] = FILTER
    /\ Len(data.filtered_points) = 3
    /\ Len(data.head_positions) = 1
    /\ Len(data.headless_positions) = 1
    /\ normals(data.head_positions[1]) = Tilted

\* the state of the loop after at most n more turns in which nextcmd returns
\* START_RESUME and the worker returns
RECURSIVE ResumeTo(_, _, _)
ResumeTo(p, prev, n) ==
    IF n = 0 \/ ~(p < DONE \/ p = HALT) THEN p
    ELSE ResumeTo(NextStep(p, prev), prev, n - 1)

\* C33: when from some point on every nextcmd call is answered with
\* START_RESUME, generate reaches DONE, whatever PAUSE and START_RESUME
\* commands came before, two PAUSE commands in a row included: from every
\* state of a run that read only PAUSE and START_RESUME, turns with
\* START_RESUME lead to DONE.
C33_ResumeReachesDone ==
    (ret = "running" /\ ncmd["STOP"] = 0 /\ ncmd["SYNCH"] = 0) =>
        ResumeTo(pc, pc_prev, NUM_STEPS * NUM_STEPS) = DONE

\* the shared data and the tree after the workers of the states p, p + 1,
\* ..., DONE have run on w in this order, as in a run that reads
\* START_RESUME only
RECURSIVE RunThrough(_, _, _)
RunThrough(bd, w, p) ==
    IF p > DONE THEN w ELSE RunThrough(bd, program(bd, p, w), p + 1)

\* the trees of the runs over the scene that read START_RESUME only
PlainTrees ==
    {TreeOf(RunThrough(bd, [data |-> EmptyData, result |-> NewImpl(MainId)], FILTER).result) :
        bd \in Builds}

\* the run read one SYNCH, in a state other than HALT, DONE and ABORT, and
\* START_RESUME otherwise, and has reached DONE
SynchRunDone ==
    /\ pc = DONE
    /\ ncmd["SYNCH"] = 1
    /\ ncmd["PAUSE"] = 0
    /\ ncmd["STOP"] = 0
    /\ ~first.done

\* C34: SYNCH restarts the pipeline from BEGIN with the shared data cleared:
\* a run that reads SYNCH in a running state and START_RESUME otherwise ends
\* in DONE with the same tree contents as a run that reads START_RESUME only.
C34_SynchRunSameTree ==
    SynchRunDone => TreeOf(result) \in PlainTrees

\* the first run on a new tree read START_RESUME only and has reached DONE
PlainRunDone ==
    /\ pc = DONE
    /\ OnlyStart
    /\ ~first.done
    /\ IsTree(result)

\* the pillars of the tree whose headref is the head at index idx
PillarsOfHead(idx) ==
    {k \in 1 .. Len(result.m_pillars.el) :
        result.m_pillars.el[k].headref = HeadRef(result, idx)}

\* C35: after a run with START_RESUME only has reached DONE, every head of
\* the tree is referenced by exactly one pillar and there are as many pillars
\* as heads, however the heads split into grounded and non-grounded ones and
\* however the grounded heads are clustered.
C35_OnePillarPerHead ==
    PlainRunDone =>
        /\ Len(result.m_pillars.el) = Len(result.m_heads.el)
        /\ \A idx \in 0 .. Len(result.m_heads.el) - 1 :
              Cardinality(PillarsOfHead(idx)) = 1

\* a run ended with a head above the mesh and a cluster of two grounded
\* heads of which the side head had no room for a bridge to the main pillar:
\* no junction and no bridge, and a pillar for each of the three heads
C35_Witness ==
    /\ PlainRunDone
    /\ Len(result.m_heads.el) = 3
    /\ Len(data.noground_heads) = 1
    /\ data.ground_connectors = << <<0, 1>> >>
    /\ result.m_bridges.el = << >>
    /\ result.m_junctions.el = << >>
    /\ \A idx \in 0 .. 2 : Cardinality(PillarsOfHead(idx)) = 1

====
